---- MODULE Spec2Model ----
(***************************************************************************)
(* The conversation turn orchestrator of poc-liveavatar-copilot            *)
(* (src/src/hooks/useConversationLoop.ts) together with the callers that   *)
(* drive it (src/src/components/AvatarSession.tsx and the speech-to-text   *)
(* hook, src/unnamed/part_001).                                            *)
(*                                                                         *)
(* The hook keeps six pieces of React state.  Every asynchronous operation *)
(* of the hook is modelled as an invocation record that moves from one     *)
(* await to the next; one action is the code that runs between two awaits. *)
(* A callback created by useCallback reads the state values of the render  *)
(* that created it, so an invocation is given the values its closure       *)
(* captured rather than the current ones.                                  *)
(***************************************************************************)
EXTENDS Integers, Sequences, FiniteSets, TLC

\* ------------------------------------------------------------------ bounds
\* Number of accepted invocations (runTurn, completeTokenExchange,
\* submitAllowAction) in one behaviour.
MaxCalls == 2

Slots == 1..MaxCalls

\* ------------------------------------------------------------------- texts
\* A text is a sequence of one-character strings, so that trimming is computed.
Whitespace == {" "}

RECURSIVE TrimStart(_)
TrimStart(s) ==
  IF s # <<>> /\ Head(s) \in Whitespace THEN TrimStart(Tail(s)) ELSE s

RECURSIVE TrimEnd(_)
TrimEnd(s) ==
  IF s # <<>> /\ s[Len(s)] \in Whitespace
    THEN TrimEnd(SubSeq(s, 1, Len(s) - 1))
    ELSE s

\* String.prototype.trim
Trim(s) == TrimEnd(TrimStart(s))

Undefined == "undefined"
Null == "null"

\* Variant: null passes for a value.
Truthy_Null(v) == v # Undefined /\ v # ""

\* A value of an optional string field is truthy when present and non-empty.
Truthy(v) == v # Undefined /\ v # Null /\ v # ""

\* signinCard === null
NoCard == [null |-> TRUE]

\* Variant: every message is attributed to the user.
message_Anonymous(role, text) == [role |-> "user", text |-> text]

\* message(role, text); the id and the creation time are opaque and left out.
message(role, text) == [role |-> role, text |-> text]

\* ----------------------------------------------------- what adapters return
\* CopilotSigninCard values the backend may send.
CardAllow ==
  [title |-> "Allow", message |-> <<" ", "m", " ">>,
   tokenExchangeResourceUri |-> Undefined, tokenExchangeResourceId |-> Undefined,
   connectionName |-> Undefined, submitAction |-> "allow"]

CardBlank ==
  [title |-> "Blank", message |-> <<" ">>,
   tokenExchangeResourceUri |-> Undefined, tokenExchangeResourceId |-> Undefined,
   connectionName |-> Undefined, submitAction |-> Undefined]

CardOAuth ==
  [title |-> "OAuth", message |-> <<"s">>,
   tokenExchangeResourceUri |-> "uri", tokenExchangeResourceId |-> "rid",
   connectionName |-> "conn", submitAction |-> Undefined]

CardUriOnly ==
  [title |-> "UriOnly", message |-> <<"u">>,
   tokenExchangeResourceUri |-> "uri", tokenExchangeResourceId |-> Undefined,
   connectionName |-> Undefined, submitAction |-> Undefined]

Response(reply, speech, card) ==
  [botReply |-> reply, speechText |-> speech, signinCard |-> card]

\* CopilotMessageResponse values sendCopilotMessage may resolve with.
BackendReplies ==
  { Response(<<" ", "o", "k", " ">>, Undefined, NoCard),
    Response(<<"o", "k">>, <<" ", "k", " ">>, NoCard),
    Response(<<"o", "k">>, <<" ">>, NoCard),
    Response(<<" ">>, Undefined, NoCard),
    Response(<<>>, Undefined, CardAllow),
    Response(<<" ">>, Undefined, CardBlank),
    Response(<<" ", "o", "k", " ">>, Undefined, CardOAuth),
    Response(<<>>, Undefined, CardOAuth),
    Response(<<>>, Undefined, CardUriOnly) }

\* CopilotMessageResponse values exchangeConnectionToken / submitCardAction
\* may resolve with.
ExchangeReplies ==
  { Response(<<" ", "d", " ">>, Undefined, NoCard),
    Response(<<>>, Undefined, NoCard),
    Response(<<" ">>, Undefined, CardAllow) }

NoResponse == [none |-> TRUE]

\* Texts runTurn may be called with.
UserTexts == { <<" ", "h", "i", " ">>, <<"y", "o">>, <<" ">> }

\* What an adapter gave back to the operation that awaited it.
Resolved(fn, value) == [fn |-> fn, outcome |-> "resolves", value |-> value]
Thrown(fn, msg) == [fn |-> fn, outcome |-> "throws", value |-> [message |-> msg]]

\* Error messages of the failures the adapters may raise.
ErrCopilot == "copilot failed"
ErrTts == "TTS route did not return audio"
ErrSpeak == "LiveAvatar session is not started"
ErrAcquire == "MSAL is not configured."
ErrExchange == "token exchange failed"
ErrSubmit == "submit action failed"

\* The errors the consent operations throw when their precondition fails.
ErrNoExchangeCard == "No pending signin card with token exchange metadata"
ErrNoSubmitCard == "No pending signin card with submit action data"

\* Filler templates NEXT_PUBLIC_FILLER_TEXT_TEMPLATE may hold after trimming;
\* the empty one disables the filler.
FillerTemplates == { <<>>, <<"{{input}}", "?">> }

\* ------------------------------------------------------------------- state
VARIABLES
  history,          \* useState<ConversationMessage[]>([])
  status,           \* useState<UiStatus>("idle")
  isProcessing,     \* useState(false)
  error,            \* useState<string | null>(null)
  signinCard,       \* useState<CopilotSigninCard | null>(null)
  isExchanging,     \* useState(false)
  FILLER_TEXT_TEMPLATE, \* module constant read from the environment
  authenticated,    \* msalAuth.isAuthenticated: whether the token adapters exist
  isListening,      \* useDeepgramSTT: the microphone is open
  sttIsProcessing,  \* isProcessing as captured by the transcript handler's runTurn
  popupCard,        \* the card the Connect handler captured while its popup is open
  calls,            \* the invocations of the asynchronous operations
  nCalls,           \* how many invocations were accepted
  keepSettled,      \* bookkeeping: whether settled invocation records are kept
  lastThrown,       \* the error the latest call of a consent operation threw
                    \* before it set any state; Null when it threw none
  lastBlank,        \* the latest call of runTurn had no text left after trimming
  botActivities,    \* the activities the agent answered the message with
  authMethod,       \* CopilotAuthMethod of the conversation
  handed,           \* what sendMessage gave the orchestrator for the message
  isSessionActive,  \* AvatarSession: useState(false), true once a session started
  stopping,         \* stopFullSession is between its first await and its end
  sessionRef,       \* useLiveAvatarSession: useRef<LiveAvatarSession | null>(null)
  keepAliveTimerRef, \* useLiveAvatarSession: useRef<number | null>(null)
  intervals,        \* the intervals of window.setInterval that were not cleared
  sessionStatus,    \* useLiveAvatarSession: useState<SessionStatus>("idle")
  avatarError,      \* useLiveAvatarSession: useState<string | null>(null)
  starts,           \* the invocations of startSession
  stops,            \* the invocations of stopSession
  mounted           \* the component that uses the hook is mounted

hook == <<history, status, isProcessing, error, signinCard, isExchanging>>
config == <<FILLER_TEXT_TEMPLATE, authenticated>>
stt == <<isListening, sttIsProcessing, popupCard>>
book == <<nCalls, keepSettled, lastThrown, lastBlank>>
backend == <<botActivities, authMethod, handed>>
avatar == <<sessionRef, keepAliveTimerRef, intervals, sessionStatus, avatarError,
            starts, stops, mounted>>
session == <<isSessionActive, stopping, avatar>>
vars == <<hook, config, stt, calls, book, backend, session>>

NoOutcome == [none |-> TRUE]

\* An invocation record that is not in use.  Besides the operation's locals
\* (text, card, resp, xres) and its place (pc, filler) a record logs the
\* requests the operation made (reqs, fillerReqs), what they gave back
\* (results), the messages it appended (gained), the values it gave the
\* status, in the order of its setStatus calls (statuses), the state it left
\* when it settled (out) and what its caller does once it has resolved
\* (onSettled).
IdleCall ==
  [op |-> "none", pc |-> "idle", userText |-> <<>>, text |-> <<>>,
   card |-> NoCard, resp |-> NoResponse, xres |-> NoResponse,
   filler |-> "none", reqs |-> <<>>, fillerReqs |-> <<>>, results |-> <<>>,
   gained |-> <<>>, statuses |-> <<>>, out |-> NoOutcome, onSettled |-> "none"]

\* The bounds on the invocations of startSession and of stopSession.
MaxStarts == 2
MaxStops == 2

\* useLiveAvatarSession after its first render: no session, no timer.
AvatarStart ==
  /\ sessionRef = {}
  /\ keepAliveTimerRef = {}
  /\ intervals = {}
  /\ sessionStatus = "idle"
  /\ avatarError = Null
  /\ starts = [n \in 1..MaxStarts |-> "idle"]
  /\ stops = [k \in 1..MaxStops |-> [pc |-> "idle", held |-> {}]]
  /\ mounted = TRUE

Start ==
  /\ history = <<>>
  /\ status = "idle"
  /\ isProcessing = FALSE
  /\ error = Null
  /\ signinCard = NoCard
  /\ isExchanging = FALSE
  /\ FILLER_TEXT_TEMPLATE \in FillerTemplates
  /\ authenticated \in BOOLEAN
  /\ isListening = FALSE
  /\ sttIsProcessing = FALSE
  /\ popupCard = NoCard
  /\ calls = [t \in Slots |-> IdleCall]
  /\ nCalls = 0
  /\ lastThrown = Null
  /\ lastBlank = FALSE
  /\ botActivities = <<>>
  /\ authMethod = "entra"
  /\ handed = NoResponse
  /\ isSessionActive = TRUE
  /\ stopping = FALSE
  /\ AvatarStart

Init == Start /\ keepSettled = FALSE

\* ------------------------------------------------------------- invocations
Settled(c) == c.pc \in {"resolved", "rejected"}

InFlight(t) == calls[t].pc \notin {"idle", "resolved", "rejected"}

\* No operation of the hook is between its acceptance and its settlement.
Quiescent == \A t \in Slots : ~InFlight(t)

request(fn, arg) == [fn |-> fn, arg |-> arg]

\* Bookkeeping at the acceptance of an invocation: unless records are kept,
\* a settled invocation keeps only its operation, its outcome and its filler.
Retired ==
  IF keepSettled THEN calls
  ELSE [t \in Slots |->
          IF Settled(calls[t])
            THEN [IdleCall EXCEPT !.op = calls[t].op, !.pc = calls[t].pc,
                                  !.filler = calls[t].filler]
            ELSE calls[t]]

\* The state an operation leaves when it settles.
Outcome(st, err, card, thrown) ==
  [status |-> st, error |-> err, signinCard |-> card, thrown |-> thrown]

\* ------------------------------------------------------------- speakFiller
\* Variant: speakFiller goes to the synthesis without looking at the template.
FillerStart_Always(template) == "synth"

\* speakFiller up to its first await: disabled without a template, otherwise
\* the filler text goes to synthesizeSpeech.
FillerStart(template) == IF template = <<>> THEN "off" ELSE "synth"

\* userText.length > 80 ? `${userText.slice(0, 80)}...` : userText
FillerInputLimit == 80

Truncated(userText) ==
  IF Len(userText) > FillerInputLimit
    THEN SubSeq(userText, 1, FillerInputLimit) \o <<".", ".", ".">>
    ELSE userText

\* The replacement string of String.prototype.replaceAll is a template of
\* its own: $$ stands for a dollar sign, $& for the matched text, a dollar
\* sign and a grave accent for the text before the match and $' for the text
\* after it; any other dollar sign (the search value is a string, so there
\* are no groups) stands for itself.
GraveAccent == "grave"

ReplacementPatterns == {"$", "&", GraveAccent, "'"}

\* The positions of replacement at which a pattern starts, a dollar sign that
\* ends a pattern before it not counted: the scan goes from left to right.
RECURSIVE PatternStarts(_, _)
PatternStarts(replacement, from) ==
  LET at == {i \in from..(Len(replacement) - 1) :
               replacement[i] = "$" /\ replacement[i + 1] \in ReplacementPatterns}
  IN IF at = {} THEN {}
     ELSE LET first == CHOOSE i \in at : \A k \in at : i <= k
          IN {first} \cup PatternStarts(replacement, first + 2)

RECURSIVE GetSubstitution(_, _, _)
GetSubstitution(replacement, before, after) ==
  LET at == PatternStarts(replacement, 1)
  IN IF at = {} THEN replacement
     ELSE LET first == CHOOSE i \in at : \A k \in at : i <= k
              mark == replacement[first + 1]
          IN SubSeq(replacement, 1, first - 1)
               \o (CASE mark = "$" -> <<"$">>
                     [] mark = "&" -> <<"{{input}}">>
                     [] mark = GraveAccent -> before
                     [] mark = "'" -> after)
               \o GetSubstitution(SubSeq(replacement, first + 2, Len(replacement)),
                                  before, after)

\* The template from position i on, every placeholder replaced.
RECURSIVE ReplaceFrom(_, _, _)
ReplaceFrom(template, i, truncated) ==
  IF i > Len(template) THEN <<>>
  ELSE (IF template[i] = "{{input}}"
          THEN GetSubstitution(truncated, SubSeq(template, 1, i - 1),
                               SubSeq(template, i + 1, Len(template)))
          ELSE <<template[i]>>)
         \o ReplaceFrom(template, i + 1, truncated)

\* template.replaceAll("{{input}}", truncated); the placeholder is one element
\* of a template, every other element one character.
ReplaceAll(template, truncated) == ReplaceFrom(template, 1, truncated)

\* The filler text speakFiller sends to synthesizeSpeech.
FillerText(template, userText) ==
  IF \E i \in 1..Len(template) : template[i] = "{{input}}"
    THEN ReplaceAll(template, Truncated(userText))
    ELSE template

\* What the catch block of speakFiller makes of a failure: the promise of
\* speakFiller resolves.
FillerCatch == "swallowed"

\* Variant: a failed filler leaves the promise of speakFiller pending.
FillerSettled_OnlySuccess(c) == c.filler \in {"off", "done"}

\* Variant: runTurn goes on while the filler is being played.
FillerSettled_Playing(c) == c.filler \in {"off", "done", FillerCatch, "play"}

FillerSettled(c) == c.filler \in {"off", "done", FillerCatch}

\* Variant: a failure of the filler branch reaches runTurn.
FillerRejection_Unhandled(c) == IF c.filler = FillerCatch THEN ErrTts ELSE Null

\* The error runTurn sees when it awaits fillerPromise.catch(() => {}): none,
\* whatever happened in the filler branch.
FillerRejection(c) == Null

FillerSynthResolves(t) ==
  /\ calls[t].filler = "synth"
  /\ calls' = [calls EXCEPT ![t].filler = "play",
                            ![t].fillerReqs = Append(@, request("speakAudio", <<>>))]
  /\ UNCHANGED <<hook, config, backend, session, stt, book>>

FillerSynthThrows(t) ==
  /\ calls[t].filler = "synth"
  /\ calls' = [calls EXCEPT ![t].filler = FillerCatch]
  /\ UNCHANGED <<hook, config, backend, session, stt, book>>

FillerPlayResolves(t) ==
  /\ calls[t].filler = "play"
  /\ calls' = [calls EXCEPT ![t].filler = "done"]
  /\ UNCHANGED <<hook, config, backend, session, stt, book>>

FillerPlayThrows(t) ==
  /\ calls[t].filler = "play"
  /\ calls' = [calls EXCEPT ![t].filler = FillerCatch]
  /\ UNCHANGED <<hook, config, backend, session, stt, book>>

\* ----------------------------------------------------------------- runTurn
\* Variant: no turn is accepted while an error is recorded.
RunTurnReturns_AfterError(cleanText, closureIsProcessing) ==
  cleanText = <<>> \/ closureIsProcessing \/ error # Null

\* if (!cleanText || isProcessing) return;  isProcessing is the value the
\* closure of this runTurn captured.
RunTurnReturns(cleanText, closureIsProcessing) ==
  cleanText = <<>> \/ closureIsProcessing

\* What the caller of runTurn does after the promise resolved:
\* submitManualText sets the status to idle when the microphone was closed.
CallerThen(onSettled, st) == IF onSettled = "setIdle" THEN "idle" ELSE st

\* Variant: an accepted runTurn leaves the previous error in place.
RunTurn_KeepsError(closureIsProcessing, userText, onSettled) ==
  LET cleanText == Trim(userText)
      fill == FillerStart(FILLER_TEXT_TEMPLATE)
  IN IF RunTurnReturns(cleanText, closureIsProcessing)
       THEN /\ status' = CallerThen(onSettled, status)
            /\ lastBlank' = (cleanText = <<>>)
            /\ UNCHANGED <<history, isProcessing, error, signinCard, isExchanging,
                           config, backend, session, stt, calls,
                           nCalls, keepSettled, lastThrown>>
       ELSE /\ nCalls < MaxCalls
            /\ error' = error
            /\ signinCard' = NoCard
            /\ isProcessing' = TRUE
            /\ status' = "speaking"
            /\ history' = Append(history, message("user", cleanText))
            /\ nCalls' = nCalls + 1
            /\ calls' = [Retired EXCEPT ![nCalls + 1] =
                 [IdleCall EXCEPT
                    !.op = "runTurn", !.pc = "copilot",
                    !.userText = userText, !.text = cleanText,
                    !.filler = fill,
                    !.fillerReqs =
                       IF fill = "synth"
                         THEN <<request("synthesizeSpeech",
                                        FillerText(FILLER_TEXT_TEMPLATE, cleanText))>>
                         ELSE <<>>,
                    !.reqs = <<request("sendCopilotMessage", cleanText)>>,
                    !.gained = <<message("user", cleanText)>>,
                    !.statuses = <<"speaking">>,
                    !.onSettled = onSettled]]
            /\ lastBlank' = FALSE
            /\ UNCHANGED <<isExchanging, config, backend, session, stt, keepSettled, lastThrown>>

\* Variant: a call without text clears the recorded error before it returns.
RunTurn_BlankClearsError(closureIsProcessing, userText, onSettled) ==
  LET cleanText == Trim(userText)
      fill == FillerStart(FILLER_TEXT_TEMPLATE)
  IN IF RunTurnReturns(cleanText, closureIsProcessing)
       THEN /\ status' = CallerThen(onSettled, status)
            /\ lastBlank' = (cleanText = <<>>)
            /\ error' = (IF cleanText = <<>> THEN Null ELSE error)
            /\ UNCHANGED <<history, isProcessing, signinCard, isExchanging,
                           config, backend, session, stt, calls,
                           nCalls, keepSettled, lastThrown>>
       ELSE /\ nCalls < MaxCalls
            /\ error' = Null
            /\ signinCard' = NoCard
            /\ isProcessing' = TRUE
            /\ status' = "speaking"
            /\ history' = Append(history, message("user", cleanText))
            /\ nCalls' = nCalls + 1
            /\ calls' = [Retired EXCEPT ![nCalls + 1] =
                 [IdleCall EXCEPT
                    !.op = "runTurn", !.pc = "copilot",
                    !.userText = userText, !.text = cleanText,
                    !.filler = fill,
                    !.fillerReqs =
                       IF fill = "synth"
                         THEN <<request("synthesizeSpeech",
                                        FillerText(FILLER_TEXT_TEMPLATE, cleanText))>>
                         ELSE <<>>,
                    !.reqs = <<request("sendCopilotMessage", cleanText)>>,
                    !.gained = <<message("user", cleanText)>>,
                    !.statuses = <<"speaking">>,
                    !.onSettled = onSettled]]
            /\ lastBlank' = FALSE
            /\ UNCHANGED <<isExchanging, config, backend, session, stt, keepSettled, lastThrown>>

\* runTurn from its call to its first await.
RunTurn(closureIsProcessing, userText, onSettled) ==
  LET cleanText == Trim(userText)
      fill == FillerStart(FILLER_TEXT_TEMPLATE)
  IN IF RunTurnReturns(cleanText, closureIsProcessing)
       THEN /\ status' = CallerThen(onSettled, status)
            /\ lastBlank' = (cleanText = <<>>)
            /\ UNCHANGED <<history, isProcessing, error, signinCard, isExchanging,
                           config, backend, session, stt, calls,
                           nCalls, keepSettled, lastThrown>>
       ELSE /\ nCalls < MaxCalls
            /\ error' = Null
            /\ signinCard' = NoCard
            /\ isProcessing' = TRUE
            /\ status' = "speaking"
            /\ history' = Append(history, message("user", cleanText))
            /\ nCalls' = nCalls + 1
            /\ calls' = [Retired EXCEPT ![nCalls + 1] =
                 [IdleCall EXCEPT
                    !.op = "runTurn", !.pc = "copilot",
                    !.userText = userText, !.text = cleanText,
                    !.filler = fill,
                    !.fillerReqs =
                       IF fill = "synth"
                         THEN <<request("synthesizeSpeech",
                                        FillerText(FILLER_TEXT_TEMPLATE, cleanText))>>
                         ELSE <<>>,
                    !.reqs = <<request("sendCopilotMessage", cleanText)>>,
                    !.gained = <<message("user", cleanText)>>,
                    !.statuses = <<"speaking">>,
                    !.onSettled = onSettled]]
            /\ lastBlank' = FALSE
            /\ UNCHANGED <<isExchanging, config, backend, session, stt, keepSettled, lastThrown>>

\* Variant: the catch block records the error and does not rethrow it.
TurnCatch_Swallow(t, c, turnError) ==
  /\ status' = "error"
  /\ error' = turnError
  /\ isProcessing' = FALSE
  /\ calls' = [calls EXCEPT ![t] =
       [c EXCEPT !.pc = "resolved",
                 !.statuses = Append(@, "error"),
                 !.out = Outcome("error", turnError, signinCard', Null)]]

\* The catch and finally blocks of runTurn: the turn rejects with turnError.
TurnCatch(t, c, turnError) ==
  /\ status' = "error"
  /\ error' = turnError
  /\ isProcessing' = FALSE
  /\ calls' = [calls EXCEPT ![t] =
       [c EXCEPT !.pc = "rejected",
                 !.statuses = Append(@, "error"),
                 !.out = Outcome("error", turnError, signinCard', turnError)]]

\* The finally block of runTurn on the normal path: the turn resolves having
\* last set the status to st, and its caller continues.
TurnFinally(t, c, st) ==
  /\ status' = CallerThen(c.onSettled, st)
  /\ isProcessing' = FALSE
  /\ calls' = [calls EXCEPT ![t] =
       [c EXCEPT !.pc = "resolved",
                 !.statuses = Append(@, st),
                 !.out = Outcome(st, error, signinCard', Null)]]

\* Variant: speechText ?? displayText, an empty speechText is synthesized.
SpeechText_Nullish(displayText, speechText) ==
  IF speechText # Undefined THEN Trim(speechText) ELSE displayText

\* speechText || displayText
SpeechText(displayText, speechText) ==
  IF speechText # Undefined /\ Trim(speechText) # <<>>
    THEN Trim(speechText) ELSE displayText

\* Variant: processBotReply leaves the status at thinking while it speaks.
ProcessBotReply_Thinking(t, c, displayText, speechText) ==
  /\ history' = Append(history, message("assistant", displayText))
  /\ status' = "thinking"
  /\ calls' = [calls EXCEPT ![t] =
       [c EXCEPT !.pc = "synth",
                 !.gained = Append(@, message("assistant", displayText)),
                 !.reqs = Append(@, request("synthesizeSpeech",
                                            SpeechText(displayText, speechText)))]]

\* Variant: processBotReply puts the reply in front of the history.
ProcessBotReply_Prepend(t, c, displayText, speechText) ==
  /\ history' = <<message("assistant", displayText)>> \o history
  /\ status' = "speaking"
  /\ calls' = [calls EXCEPT ![t] =
       [c EXCEPT !.pc = "synth",
                 !.gained = Append(@, message("assistant", displayText)),
                 !.statuses = Append(@, "speaking"),
                 !.reqs = Append(@, request("synthesizeSpeech",
                                            SpeechText(displayText, speechText)))]]

\* processBotReply up to its first await.
ProcessBotReply(t, c, displayText, speechText) ==
  /\ history' = Append(history, message("assistant", displayText))
  /\ status' = "speaking"
  /\ calls' = [calls EXCEPT ![t] =
       [c EXCEPT !.pc = "synth",
                 !.gained = Append(@, message("assistant", displayText)),
                 !.statuses = Append(@, "speaking"),
                 !.reqs = Append(@, request("synthesizeSpeech",
                                            SpeechText(displayText, speechText)))]]

\* await copilotPromise, resolved
CopilotResolves(t, r) ==
  /\ calls[t].op = "runTurn" /\ calls[t].pc = "copilot"
  /\ calls' = [calls EXCEPT
       ![t].pc = "interrupt", ![t].resp = r,
       ![t].results = Append(@, Resolved("sendCopilotMessage", r)),
       ![t].reqs = Append(@, request("interruptSpeech", <<>>))]
  /\ UNCHANGED <<hook, config, backend, session, stt, book>>

\* await copilotPromise, rejected
CopilotThrows(t) ==
  /\ calls[t].op = "runTurn" /\ calls[t].pc = "copilot"
  /\ signinCard' = signinCard
  /\ TurnCatch(t, [calls[t] EXCEPT
                     !.results = Append(@, Thrown("sendCopilotMessage", ErrCopilot))],
               ErrCopilot)
  /\ UNCHANGED <<history, isExchanging, config, backend, session, stt, book>>

\* await interruptSpeech()
InterruptResolves(t) ==
  /\ calls[t].op = "runTurn" /\ calls[t].pc = "interrupt"
  /\ calls' = [calls EXCEPT ![t].pc = "filler"]
  /\ UNCHANGED <<hook, config, backend, session, stt, book>>

\* Variant: the guard of trySilentExchange looks at the URI alone.
SilentExchangePossible_UriOnly(card) ==
  /\ Truthy(card.tokenExchangeResourceUri)
  /\ authenticated

\* The guard of trySilentExchange; the adapters exist when signed in.
SilentExchangePossible(card) ==
  /\ Truthy(card.tokenExchangeResourceUri)
  /\ Truthy(card.tokenExchangeResourceId)
  /\ Truthy(card.connectionName)
  /\ authenticated

\* Variant: the reply is used as the backend sent it.
botReply_Untrimmed(response) == response.botReply

\* const botReply = response.botReply.trim()
botReply(response) == Trim(response.botReply)

\* Variant: the replacement reply is used as the backend sent it.
exchangeReply_Untrimmed(exchangeResult) == exchangeResult.botReply

\* const exchangeReply = exchangeResult.botReply.trim()
exchangeReply(exchangeResult) == Trim(exchangeResult.botReply)

\* Variant: the card's message is used as the backend sent it.
CardMessage_Untrimmed(nextSigninCard) ==
  IF nextSigninCard = NoCard THEN <<>> ELSE nextSigninCard.message

\* nextSigninCard?.message.trim()
CardMessage(nextSigninCard) ==
  IF nextSigninCard = NoCard THEN <<>> ELSE Trim(nextSigninCard.message)

\* runTurn from "if (nextSigninCard) setSigninCard" to its next await or end.
ShowCardAndReply(t, c) ==
  LET nextSigninCard == c.resp.signinCard
      cardMessage == CardMessage(nextSigninCard)
  IN /\ signinCard' = (IF nextSigninCard # NoCard THEN nextSigninCard ELSE signinCard)
     /\ IF botReply(c.resp) # <<>>
          THEN /\ ProcessBotReply(t, c, botReply(c.resp), c.resp.speechText)
               /\ UNCHANGED <<isProcessing, error>>
          ELSE /\ history' = (IF cardMessage # <<>>
                                THEN Append(history, message("assistant", cardMessage))
                                ELSE history)
               /\ TurnFinally(t,
                    [c EXCEPT !.gained =
                       IF cardMessage # <<>>
                         THEN Append(@, message("assistant", cardMessage))
                         ELSE @],
                    "listening")
               /\ error' = error
     /\ UNCHANGED <<isExchanging, config, backend, session, stt, book>>

\* await fillerPromise.catch(() => {}), then on to the silent exchange or to
\* the card and the reply.
FillerJoined(t) ==
  LET c == calls[t]
      card == c.resp.signinCard
  IN /\ c.op = "runTurn" /\ c.pc = "filler"
     /\ FillerSettled(c)
     /\ IF FillerRejection(c) # Null
          THEN /\ signinCard' = signinCard
               /\ TurnCatch(t, c, FillerRejection(c))
               /\ UNCHANGED <<history, isExchanging, config, backend, session, stt, book>>
          ELSE IF card # NoCard /\ SilentExchangePossible(card)
            THEN /\ status' = "thinking"
                 /\ calls' = [calls EXCEPT
                      ![t].pc = "acquire",
                      ![t].statuses = Append(@, "thinking"),
                      ![t].reqs = Append(@, request("acquireConnectionToken",
                                                    card.tokenExchangeResourceUri))]
                 /\ UNCHANGED <<history, isProcessing, error, signinCard, isExchanging,
                                config, backend, session, stt, book>>
            ELSE ShowCardAndReply(t, [c EXCEPT !.statuses = Append(@, "thinking")])

\* await acquireConnectionToken(uri), resolved with a token or with null
AcquireResolves(t, connectionToken) ==
  LET c == [calls[t] EXCEPT
              !.results = Append(@, Resolved("acquireConnectionToken",
                                             [token |-> connectionToken]))]
  IN /\ calls[t].op = "runTurn" /\ calls[t].pc = "acquire"
     /\ IF Truthy(connectionToken)
          THEN /\ calls' = [calls EXCEPT ![t] =
                    [c EXCEPT !.pc = "exchange",
                              !.reqs = Append(@, request("exchangeConnectionToken",
                                   [connectionToken |-> connectionToken,
                                    connectionName |-> c.resp.signinCard.connectionName,
                                    tokenExchangeResourceId |->
                                      c.resp.signinCard.tokenExchangeResourceId]))]]
               /\ UNCHANGED <<hook, config, backend, session, stt, book>>
          ELSE ShowCardAndReply(t, c)

\* Variant: a failure of the silent acquisition counts as "consent needed".
AcquireThrows_AsNull(t) ==
  /\ calls[t].op = "runTurn" /\ calls[t].pc = "acquire"
  /\ ShowCardAndReply(t, [calls[t] EXCEPT
         !.results = Append(@, Thrown("acquireConnectionToken", ErrAcquire))])

AcquireThrows(t) ==
  /\ calls[t].op = "runTurn" /\ calls[t].pc = "acquire"
  /\ signinCard' = signinCard
  /\ TurnCatch(t, [calls[t] EXCEPT
                     !.results = Append(@, Thrown("acquireConnectionToken", ErrAcquire))],
               ErrAcquire)
  /\ UNCHANGED <<history, isExchanging, config, backend, session, stt, book>>

\* Variant: an empty replacement reply falls through to the card and the
\* reply of the backend.
SilentExchangeResolves_FallsThrough(t, exchangeResult) ==
  LET c == [calls[t] EXCEPT
              !.xres = exchangeResult,
              !.results = Append(@, Resolved("exchangeConnectionToken", exchangeResult))]
  IN /\ calls[t].op = "runTurn" /\ calls[t].pc = "exchange"
     /\ IF exchangeReply(exchangeResult) # <<>>
          THEN /\ signinCard' = signinCard
               /\ ProcessBotReply(t, c, exchangeReply(exchangeResult),
                                  exchangeResult.speechText)
               /\ UNCHANGED <<isProcessing, error>>
               /\ UNCHANGED <<isExchanging, config, backend, session, stt, book>>
          ELSE ShowCardAndReply(t, c)

\* await trySilentExchange(card), resolved with the exchange's response
SilentExchangeResolves(t, exchangeResult) ==
  LET c == [calls[t] EXCEPT
              !.xres = exchangeResult,
              !.results = Append(@, Resolved("exchangeConnectionToken", exchangeResult))]
  IN /\ calls[t].op = "runTurn" /\ calls[t].pc = "exchange"
     /\ signinCard' = signinCard
     /\ IF exchangeReply(exchangeResult) # <<>>
          THEN /\ ProcessBotReply(t, c, exchangeReply(exchangeResult),
                                  exchangeResult.speechText)
               /\ UNCHANGED <<isProcessing, error>>
          ELSE /\ TurnFinally(t, c, "listening")
               /\ UNCHANGED <<history, error>>
     /\ UNCHANGED <<isExchanging, config, backend, session, stt, book>>

SilentExchangeThrows(t) ==
  /\ calls[t].op = "runTurn" /\ calls[t].pc = "exchange"
  /\ signinCard' = signinCard
  /\ TurnCatch(t, [calls[t] EXCEPT
                     !.results = Append(@, Thrown("exchangeConnectionToken", ErrExchange))],
               ErrExchange)
  /\ UNCHANGED <<history, isExchanging, config, backend, session, stt, book>>

\* -------------------------------------------------- the consent operations
\* The catch and finally blocks of completeTokenExchange: the error is
\* recorded and not rethrown.
ExchangeCatch(t, c, exchangeError) ==
  /\ status' = "error"
  /\ error' = exchangeError
  /\ isExchanging' = FALSE
  /\ calls' = [calls EXCEPT ![t] =
       [c EXCEPT !.pc = "resolved",
                 !.statuses = Append(@, "error"),
                 !.out = Outcome("error", exchangeError, signinCard', Null)]]

\* Variant: the status is left as it was when the exchange was awaited.
ExchangeFinally_Thinking(t, c, st) ==
  /\ status' = status
  /\ isExchanging' = FALSE
  /\ calls' = [calls EXCEPT ![t] =
       [c EXCEPT !.pc = "resolved",
                 !.out = Outcome(status, error, signinCard', Null)]]

\* The finally block of completeTokenExchange on the normal path.
ExchangeFinally(t, c, st) ==
  /\ status' = st
  /\ isExchanging' = FALSE
  /\ calls' = [calls EXCEPT ![t] =
       [c EXCEPT !.pc = "resolved",
                 !.statuses = Append(@, st),
                 !.out = Outcome(st, error, signinCard', Null)]]

\* The catch and finally blocks of submitAllowAction.
SubmitCatch(t, c, submitError) ==
  /\ status' = "error"
  /\ error' = submitError
  /\ isExchanging' = FALSE
  /\ calls' = [calls EXCEPT ![t] =
       [c EXCEPT !.pc = "resolved",
                 !.statuses = Append(@, "error"),
                 !.out = Outcome("error", submitError, signinCard', Null)]]

\* Variant: the finally block leaves isExchanging set.
SubmitFinally_Busy(t, c, st) ==
  /\ status' = st
  /\ isExchanging' = isExchanging
  /\ calls' = [calls EXCEPT ![t] =
       [c EXCEPT !.pc = "resolved",
                 !.statuses = Append(@, st),
                 !.out = Outcome(st, error, signinCard', Null)]]

\* The finally block of submitAllowAction on the normal path.
SubmitFinally(t, c, st) ==
  /\ status' = st
  /\ isExchanging' = FALSE
  /\ calls' = [calls EXCEPT ![t] =
       [c EXCEPT !.pc = "resolved",
                 !.statuses = Append(@, st),
                 !.out = Outcome(st, error, signinCard', Null)]]

\* The precondition of completeTokenExchange on the card its closure captured.
ExchangeThrowsAtOnce(card) ==
  \/ card = NoCard
  \/ ~Truthy(card.tokenExchangeResourceId)
  \/ ~Truthy(card.connectionName)
  \/ ~authenticated

\* completeTokenExchange from its call to its first await; a failed
\* precondition throws before any state is set.  What becomes of the page's
\* own state is left to the caller.
CompleteTokenExchange(closureSigninCard, connectionToken) ==
  IF ExchangeThrowsAtOnce(closureSigninCard)
    THEN /\ lastThrown' = ErrNoExchangeCard
         /\ UNCHANGED <<hook, config, backend, session, calls, nCalls, keepSettled, lastBlank>>
    ELSE /\ nCalls < MaxCalls
         /\ lastThrown' = Null
         /\ error' = Null
         /\ isExchanging' = TRUE
         /\ status' = "thinking"
         /\ nCalls' = nCalls + 1
         /\ calls' = [Retired EXCEPT ![nCalls + 1] =
              [IdleCall EXCEPT
                 !.op = "completeTokenExchange", !.pc = "exchange",
                 !.statuses = <<"thinking">>,
                 !.card = closureSigninCard,
                 !.reqs = <<request("exchangeConnectionToken",
                     [connectionToken |-> connectionToken,
                      connectionName |-> closureSigninCard.connectionName,
                      tokenExchangeResourceId |->
                        closureSigninCard.tokenExchangeResourceId])>>]]
         /\ UNCHANGED <<history, isProcessing, signinCard, config, backend, session, keepSettled, lastBlank>>

\* completeTokenExchange after the exchange resolved.
ExchangeResolves(t, result) ==
  LET c == [calls[t] EXCEPT
              !.xres = result,
              !.results = Append(@, Resolved("exchangeConnectionToken", result))]
      followUp == Trim(result.botReply)
  IN /\ calls[t].op = "completeTokenExchange" /\ calls[t].pc = "exchange"
     /\ IF followUp # <<>>
          THEN /\ signinCard' = NoCard
               /\ ProcessBotReply(t, c, followUp, result.speechText)
               /\ UNCHANGED <<error, isExchanging>>
          ELSE /\ signinCard' = result.signinCard
               /\ ExchangeFinally(t, c, "listening")
               /\ UNCHANGED <<history, error>>
     /\ UNCHANGED <<isProcessing, config, backend, session, stt, book>>

ExchangeThrows(t) ==
  /\ calls[t].op = "completeTokenExchange" /\ calls[t].pc = "exchange"
  /\ signinCard' = signinCard
  /\ ExchangeCatch(t, [calls[t] EXCEPT
                         !.results = Append(@, Thrown("exchangeConnectionToken",
                                                      ErrExchange))],
                   ErrExchange)
  /\ UNCHANGED <<history, isProcessing, config, backend, session, stt, book>>

\* The precondition of submitAllowAction; submitCardAction is always given.
SubmitThrowsAtOnce(card) ==
  card = NoCard \/ ~Truthy(card.submitAction)

\* submitAllowAction from its call to its first await.
SubmitAllowAction(closureSigninCard) ==
  IF SubmitThrowsAtOnce(closureSigninCard)
    THEN /\ lastThrown' = ErrNoSubmitCard
         /\ UNCHANGED <<hook, config, backend, session, stt, calls, nCalls, keepSettled, lastBlank>>
    ELSE /\ nCalls < MaxCalls
         /\ lastThrown' = Null
         /\ error' = Null
         /\ isExchanging' = TRUE
         /\ status' = "thinking"
         /\ nCalls' = nCalls + 1
         /\ calls' = [Retired EXCEPT ![nCalls + 1] =
              [IdleCall EXCEPT
                 !.op = "submitAllowAction", !.pc = "submit",
                 !.statuses = <<"thinking">>,
                 !.card = closureSigninCard,
                 !.reqs = <<request("submitCardAction",
                     [submitAction |-> closureSigninCard.submitAction])>>]]
         /\ UNCHANGED <<history, isProcessing, signinCard, config, backend, session, stt, keepSettled, lastBlank>>

\* submitAllowAction after the submit resolved.
SubmitResolves(t, result) ==
  LET c == [calls[t] EXCEPT
              !.xres = result,
              !.results = Append(@, Resolved("submitCardAction", result))]
      followUp == Trim(result.botReply)
  IN /\ calls[t].op = "submitAllowAction" /\ calls[t].pc = "submit"
     /\ IF followUp # <<>>
          THEN /\ signinCard' = NoCard
               /\ ProcessBotReply(t, c, followUp, result.speechText)
               /\ UNCHANGED <<error, isExchanging>>
          ELSE /\ signinCard' = result.signinCard
               /\ SubmitFinally(t, c, "listening")
               /\ UNCHANGED <<history, error>>
     /\ UNCHANGED <<isProcessing, config, backend, session, stt, book>>

SubmitThrows(t) ==
  /\ calls[t].op = "submitAllowAction" /\ calls[t].pc = "submit"
  /\ signinCard' = signinCard
  /\ SubmitCatch(t, [calls[t] EXCEPT
                       !.results = Append(@, Thrown("submitCardAction", ErrSubmit))],
                 ErrSubmit)
  /\ UNCHANGED <<history, isProcessing, config, backend, session, stt, book>>

\* -------------------------------------- processBotReply after its first await
\* await synthesizeSpeech(...), resolved: the audio goes to speakAudio.
SynthResolves(t) ==
  /\ calls[t].pc = "synth"
  /\ calls' = [calls EXCEPT
       ![t].pc = "play",
       ![t].results = Append(@, Resolved("synthesizeSpeech", [audio |-> "audio"])),
       ![t].reqs = Append(@, request("speakAudio", "audio"))]
  /\ UNCHANGED <<hook, config, backend, session, stt, book>>

\* Variant: a reply that could not be spoken is taken out of the history.
ReplyFailed_RollsBack(t, fn, msg) ==
  LET c == [calls[t] EXCEPT !.results = Append(@, Thrown(fn, msg))]
  IN /\ signinCard' = signinCard
     /\ history' = SubSeq(history, 1, Len(history) - 1)
     /\ IF c.op = "runTurn"
          THEN TurnCatch(t, c, msg) /\ isExchanging' = isExchanging
          ELSE IF c.op = "completeTokenExchange"
            THEN ExchangeCatch(t, c, msg) /\ isProcessing' = isProcessing
            ELSE SubmitCatch(t, c, msg) /\ isProcessing' = isProcessing
     /\ UNCHANGED <<config, backend, session, stt, book>>

\* A failure inside processBotReply reaches the catch block of the operation
\* that awaited it.
ReplyFailed(t, fn, msg) ==
  LET c == [calls[t] EXCEPT !.results = Append(@, Thrown(fn, msg))]
  IN /\ signinCard' = signinCard
     /\ history' = history
     /\ IF c.op = "runTurn"
          THEN TurnCatch(t, c, msg) /\ isExchanging' = isExchanging
          ELSE IF c.op = "completeTokenExchange"
            THEN ExchangeCatch(t, c, msg) /\ isProcessing' = isProcessing
            ELSE SubmitCatch(t, c, msg) /\ isProcessing' = isProcessing
     /\ UNCHANGED <<config, backend, session, stt, book>>

SynthThrows(t) ==
  /\ calls[t].pc = "synth"
  /\ ReplyFailed(t, "synthesizeSpeech", ErrTts)

\* await speakAudio(audio), resolved: setStatus("listening"), and back in the
\* operation that awaited processBotReply.
PlayResolves(t) ==
  LET c == [calls[t] EXCEPT !.results = Append(@, Resolved("speakAudio", [done |-> TRUE]))]
  IN /\ calls[t].pc = "play"
     /\ signinCard' = signinCard
     /\ IF c.op = "runTurn"
          THEN TurnFinally(t, c, "listening") /\ isExchanging' = isExchanging
          ELSE IF c.op = "completeTokenExchange"
            THEN ExchangeFinally(t, c, "listening") /\ isProcessing' = isProcessing
            ELSE SubmitFinally(t, c, "listening") /\ isProcessing' = isProcessing
     /\ UNCHANGED <<history, error, config, backend, session, stt, book>>

PlayThrows(t) ==
  /\ calls[t].pc = "play"
  /\ ReplyFailed(t, "speakAudio", ErrSpeak)

\* ------------------------------------------------ the synchronous operations
\* Variant: dismissing the card does not touch the status.
DismissSigninCard_KeepsStatus ==
  /\ signinCard' = NoCard
  /\ UNCHANGED <<history, status, isProcessing, error, isExchanging, config, backend, session, stt, calls, book>>

DismissSigninCard ==
  /\ signinCard' = NoCard
  /\ status' = "listening"
  /\ UNCHANGED <<history, isProcessing, error, isExchanging, config, backend, session, stt, calls, book>>

\* Variant: clearing the history also clears the error.
ClearHistory_ClearsError ==
  /\ history' = <<>>
  /\ signinCard' = NoCard
  /\ error' = Null
  /\ UNCHANGED <<status, isProcessing, isExchanging, config, backend, session, stt, calls, book>>

ClearHistory ==
  /\ history' = <<>>
  /\ signinCard' = NoCard
  /\ UNCHANGED <<status, isProcessing, error, isExchanging, config, backend, session, stt, calls, book>>

\* setStatus as the hook exports it
SetStatus(next) ==
  /\ status' = next
  /\ UNCHANGED <<history, isProcessing, error, signinCard, isExchanging,
                 config, backend, session, stt, calls, book>>

\* -------------------------------------------------------------- the callers
\* A direct call of the runTurn of the latest render, awaited by its caller.
CallRunTurn(userText) == RunTurn(isProcessing, userText, "none")

\* submitManualText: the Enter key reaches it whatever the hook is doing.
SubmitManualText(manualInput) ==
  LET text == Trim(manualInput)
  IN IF text = <<>>
       THEN UNCHANGED vars
       ELSE RunTurn(isProcessing, text, IF isListening THEN "none" ELSE "setIdle")

\* toggleMic, offered while no turn is processing.  Opening the microphone
\* registers a transcript handler that keeps the runTurn of this render.
ToggleMic ==
  /\ ~isProcessing
  /\ isListening' = ~isListening
  /\ sttIsProcessing' = (IF isListening THEN sttIsProcessing ELSE isProcessing)
  /\ status' = (IF isListening THEN "idle" ELSE "listening")
  /\ UNCHANGED <<history, isProcessing, error, signinCard, isExchanging,
                 config, backend, session, popupCard, calls, book>>

\* The Transcript handler of the speech-to-text connection: a final,
\* non-empty transcript goes to the runTurn the handler kept.
OnFinalTranscript(transcript) ==
  /\ isListening
  /\ Trim(transcript) # <<>>
  /\ RunTurn(sttIsProcessing, Trim(transcript), "none")

\* The Connect button: its click handler opens the popup of the interactive
\* token acquisition and keeps the conversation object of the render that
\* drew the button, hence the completeTokenExchange that captured this card.
Connect ==
  /\ signinCard # NoCard
  /\ ~Truthy(signinCard.submitAction)
  /\ Truthy(signinCard.tokenExchangeResourceUri)
  /\ authenticated
  /\ ~isExchanging
  /\ popupCard = NoCard
  /\ popupCard' = signinCard
  /\ UNCHANGED <<hook, config, backend, session, isListening, sttIsProcessing, calls, book>>

\* The popup gave a token: the handler calls the completeTokenExchange it kept.
ConnectContinues ==
  /\ popupCard # NoCard
  /\ popupCard' = NoCard
  /\ CompleteTokenExchange(popupCard, "token")
  /\ UNCHANGED <<isListening, sttIsProcessing>>

\* The popup failed or was closed: the handler swallows the error.
ConnectAbandoned ==
  /\ popupCard # NoCard
  /\ popupCard' = NoCard
  /\ UNCHANGED <<hook, config, backend, session, isListening, sttIsProcessing, calls, book>>

\* The Allow button.
Allow ==
  /\ signinCard # NoCard
  /\ Truthy(signinCard.submitAction)
  /\ ~isExchanging
  /\ SubmitAllowAction(signinCard)

\* ------------------------------------------------------- the specifications
\* The steps that settle what the operations in flight await.
SettleTurn(replies, exchanges) ==
  \E t \in Slots :
    \/ \E r \in replies : CopilotResolves(t, r)
    \/ CopilotThrows(t)
    \/ InterruptResolves(t)
    \/ FillerSynthResolves(t)
    \/ FillerSynthThrows(t)
    \/ FillerPlayResolves(t)
    \/ FillerPlayThrows(t)
    \/ FillerJoined(t)
    \/ \E connectionToken \in {"token", Null} : AcquireResolves(t, connectionToken)
    \/ AcquireThrows(t)
    \/ \E x \in exchanges : SilentExchangeResolves(t, x)
    \/ SilentExchangeThrows(t)
    \/ SynthResolves(t)
    \/ SynthThrows(t)
    \/ PlayResolves(t)
    \/ PlayThrows(t)

SettleConsent(exchanges) ==
  \E t \in Slots :
    \/ \E x \in exchanges : ExchangeResolves(t, x)
    \/ ExchangeThrows(t)
    \/ \E x \in exchanges : SubmitResolves(t, x)
    \/ SubmitThrows(t)

InvokeSync ==
  \/ DismissSigninCard
  \/ ClearHistory
  \/ \E next \in {"idle", "listening"} : SetStatus(next)

\* The inputs of the specification in which operations overlap.
CoreTexts == { <<"y", "o">> }
CoreReplies ==
  { Response(<<" ", "o", "k", " ">>, Undefined, NoCard),
    Response(<<>>, Undefined, CardAllow),
    Response(<<" ", "o", "k", " ">>, Undefined, CardAllow),
    Response(<<>>, Undefined, CardOAuth) }
CoreExchanges ==
  { Response(<<" ", "d", " ">>, Undefined, NoCard),
    Response(<<" ">>, Undefined, CardAllow) }

\* The hook as the page drives it: its controls and the transcript handler
\* call the operations whenever the page lets them.
Next ==
  \/ \E manualInput \in CoreTexts : SubmitManualText(manualInput)
  \/ ToggleMic
  \/ \E transcript \in CoreTexts : OnFinalTranscript(transcript)
  \/ Connect
  \/ ConnectContinues
  \/ ConnectAbandoned
  \/ Allow
  \/ InvokeSync
  \/ SettleTurn(CoreReplies, CoreExchanges)
  \/ SettleConsent(CoreExchanges)

Spec == Init /\ [][Next]_vars

\* The hook driven through its interface by a caller that awaits every
\* operation before it calls the next.
SerialNext ==
  \/ Quiescent /\ \E userText \in UserTexts : CallRunTurn(userText)
  \/ Quiescent /\ CompleteTokenExchange(signinCard, "token") /\ UNCHANGED stt
  \/ Quiescent /\ SubmitAllowAction(signinCard)
  \/ Quiescent /\ InvokeSync
  \/ SettleTurn(BackendReplies, ExchangeReplies)
  \/ SettleConsent(ExchangeReplies)

SerialSpec == Init /\ [][SerialNext]_vars

\* Successive awaited turns, every invocation record kept.
TurnsInit == Start /\ keepSettled = TRUE

TurnsNext ==
  \/ Quiescent /\ \E userText \in UserTexts : CallRunTurn(userText)
  \/ SettleTurn(BackendReplies, ExchangeReplies)

TurnsSpec == TurnsInit /\ [][TurnsNext]_vars

\* Successive awaited turns in which whatever a turn awaits settles.
LiveSpec ==
  /\ Init
  /\ [][TurnsNext]_vars
  /\ WF_vars(SettleTurn(BackendReplies, ExchangeReplies))

\* ------------------------------------------------- starting and stopping
\* startFullSession, offered while no session is active; it leaves the
\* conversation hook alone.
StartFullSession ==
  /\ ~isSessionActive /\ ~stopping
  /\ isSessionActive' = TRUE
  /\ UNCHANGED <<hook, config, backend, stt, calls, book, stopping, avatar>>

\* stopFullSession up to its first await: deepgram.stopListening().
StopFullSession ==
  /\ isSessionActive /\ ~stopping
  /\ stopping' = TRUE
  /\ isListening' = FALSE
  /\ UNCHANGED <<hook, config, backend, sttIsProcessing, popupCard, calls, book,
                 isSessionActive, avatar>>

\* stopFullSession after avatar.stopSession() resolved: the Copilot
\* conversation is reset (state of another hook, not part of this model),
\* then clearHistory(), setStatus("idle") and setIsSessionActive(false).
StopCompletes ==
  /\ stopping
  /\ stopping' = FALSE
  /\ history' = <<>>
  /\ signinCard' = NoCard
  /\ status' = "idle"
  /\ isSessionActive' = FALSE
  /\ UNCHANGED <<isProcessing, error, isExchanging, config, backend, stt, calls, book, avatar>>

\* The page with its Start and Stop buttons, the manual input and whatever the
\* turns in flight await.
SessionNext ==
  \/ StartFullSession
  \/ StopFullSession
  \/ StopCompletes
  \/ \E manualInput \in CoreTexts : SubmitManualText(manualInput)
  \/ SettleTurn(CoreReplies, CoreExchanges)

SessionSpec == Init /\ [][SessionNext]_vars

\* ------------------------------------------------------- the filler phrase
\* n times the character ch
Repeat(ch, n) == [i \in 1..n |-> ch]

\* Templates with no, one and two placeholders.
FillerPhraseTemplates ==
  { <<>>,
    <<"o", "k">>,
    <<"{{input}}", "?">>,
    <<"s", "{{input}}", "e">>,
    <<"{{input}}", ",", "{{input}}">> }

\* User texts below, at and above the limit of the filler, and texts with a
\* dollar sign.
FillerPhraseTexts ==
  { <<" ", "h", "i", " ">>,
    Repeat("a", FillerInputLimit - 1),
    Repeat("a", FillerInputLimit),
    Repeat("a", FillerInputLimit) \o <<"b">>,
    Repeat("a", FillerInputLimit) \o <<"b", "c", "d", "e">>,
    <<"5", "$">>,
    <<"$", "$">>,
    <<"$", "&">>,
    <<"a", "$", "'">>,
    <<"$", GraveAccent, "b">> }

FillerPhraseInit ==
  /\ history = <<>>
  /\ status = "idle"
  /\ isProcessing = FALSE
  /\ error = Null
  /\ signinCard = NoCard
  /\ isExchanging = FALSE
  /\ FILLER_TEXT_TEMPLATE \in FillerPhraseTemplates
  /\ authenticated = FALSE
  /\ isListening = FALSE
  /\ sttIsProcessing = FALSE
  /\ popupCard = NoCard
  /\ calls = [t \in Slots |-> IdleCall]
  /\ nCalls = 0
  /\ keepSettled = FALSE
  /\ lastThrown = Null
  /\ lastBlank = FALSE
  /\ botActivities = <<>>
  /\ authMethod = "entra"
  /\ handed = NoResponse
  /\ isSessionActive = TRUE
  /\ stopping = FALSE
  /\ AvatarStart

\* Awaited turns with these texts; the backend fails, so that a turn is over
\* when its filler has been started.
FillerPhraseNext ==
  \/ Quiescent /\ \E userText \in FillerPhraseTexts : CallRunTurn(userText)
  \/ \E t \in Slots : CopilotThrows(t)

FillerPhraseSpec == FillerPhraseInit /\ [][FillerPhraseNext]_vars

\* ------------------------------------------- consent operations not awaited
\* The state of the hook after a turn that left a card pending: the backend
\* answered "yo" with the card and no reply text (and, for the OAuth card,
\* the silent acquisition gave no token).  The bookkeeping starts afresh.
PendingCardInit ==
  /\ signinCard \in {CardAllow, CardOAuth}
  /\ history = <<message("user", <<"y", "o">>),
                 message("assistant", CardMessage(signinCard))>>
  /\ status = "listening"
  /\ isProcessing = FALSE
  /\ error = Null
  /\ isExchanging = FALSE
  /\ FILLER_TEXT_TEMPLATE = <<>>
  /\ authenticated = TRUE
  /\ isListening = FALSE
  /\ sttIsProcessing = FALSE
  /\ popupCard = NoCard
  /\ calls = [t \in Slots |-> IdleCall]
  /\ nCalls = 0
  /\ keepSettled = FALSE
  /\ lastThrown = Null
  /\ lastBlank = FALSE
  /\ botActivities = <<>>
  /\ authMethod = "entra"
  /\ handed = NoResponse
  /\ isSessionActive = TRUE
  /\ stopping = FALSE
  /\ AvatarStart

\* completeTokenExchange and submitAllowAction called through the hook's
\* interface by a caller that does not await them: neither has a guard
\* against a call in flight.
ConsentNext ==
  \/ CompleteTokenExchange(signinCard, "token") /\ UNCHANGED stt
  \/ SubmitAllowAction(signinCard)
  \/ SettleConsent(ExchangeReplies)
  \/ \E t \in Slots : SynthResolves(t) \/ SynthThrows(t) \/ PlayResolves(t) \/ PlayThrows(t)

ConsentSpec == PendingCardInit /\ [][ConsentNext]_vars

\* ================================================== useLiveAvatarSession
\* The hook that holds the avatar session.  A session object and the interval
\* a startSession call creates are named by the number of that call.  The two
\* references hold a set: empty for null, otherwise the one object held.
\* What the page's own handlers do with this hook is left out of the page's
\* specifications: this one calls the hook through its interface.

ErrSessionToken == "Failed to get session token"
ErrSessionStart == "session.start() failed"

\* The intervals left by clearKeepAlive().
ClearKeepAlive == intervals \ keepAliveTimerRef

AvatarFrame == <<hook, config, stt, calls, book, backend, isSessionActive, stopping>>

\* startSession from its call to the fetch of the session token.
StartSession ==
  /\ mounted
  /\ \E n \in 1..MaxStarts :
       /\ starts[n] = "idle"
       /\ \A m \in 1..(n - 1) : starts[m] # "idle"
       /\ starts' = [starts EXCEPT ![n] = "token"]
  /\ avatarError' = Null
  /\ sessionStatus' = "requesting_token"
  /\ UNCHANGED <<sessionRef, keepAliveTimerRef, intervals, stops, mounted, AvatarFrame>>

\* The token arrived: the session object is made and held, session.start()
\* is awaited.
TokenArrives(n) ==
  /\ starts[n] = "token"
  /\ sessionStatus' = "starting"
  /\ sessionRef' = {n}
  /\ starts' = [starts EXCEPT ![n] = "start"]
  /\ UNCHANGED <<keepAliveTimerRef, intervals, avatarError, stops, mounted, AvatarFrame>>

\* The catch block of startSession.
StartCatch(n, msg) ==
  /\ sessionStatus' = "error"
  /\ avatarError' = msg
  /\ starts' = [starts EXCEPT ![n] = "failed"]
  /\ UNCHANGED <<sessionRef, keepAliveTimerRef, intervals, stops, mounted, AvatarFrame>>

\* The token request failed, or its response held no token.
TokenFails(n) ==
  /\ starts[n] = "token"
  /\ StartCatch(n, ErrSessionToken)

\* session.start() resolved: clearKeepAlive(), then the new interval.  What
\* session.start() does when the session was stopped meanwhile is up to the
\* SDK: it may resolve and it may reject.
SessionStarts(n) ==
  /\ starts[n] = "start"
  /\ intervals' = ClearKeepAlive \cup {n}
  /\ keepAliveTimerRef' = {n}
  /\ starts' = [starts EXCEPT ![n] = "done"]
  /\ UNCHANGED <<sessionRef, sessionStatus, avatarError, stops, mounted, AvatarFrame>>

SessionStartFails(n) ==
  /\ starts[n] = "start"
  /\ StartCatch(n, ErrSessionStart)

\* stopSession from its call to its return without a session, or to the
\* await of session.stop().
StopSession ==
  /\ mounted
  /\ \E k \in 1..MaxStops :
       /\ stops[k].pc = "idle"
       /\ \A j \in 1..(k - 1) : stops[j].pc # "idle"
       /\ stops' = [stops EXCEPT ![k] =
            IF sessionRef = {} THEN [pc |-> "done", held |-> {}]
                               ELSE [pc |-> "stop", held |-> sessionRef]]
  /\ intervals' = ClearKeepAlive
  /\ keepAliveTimerRef' = {}
  /\ sessionStatus' = "stopped"
  /\ UNCHANGED <<sessionRef, avatarError, starts, mounted, AvatarFrame>>

\* session.stop() settled, one way or the other: the finally block of
\* stopSession.
StopSettles(k, outcome) ==
  /\ stops[k].pc = "stop"
  /\ sessionRef' = {}
  /\ stops' = [stops EXCEPT ![k].pc = outcome]
  /\ UNCHANGED <<keepAliveTimerRef, intervals, sessionStatus, avatarError, starts,
                 mounted, AvatarFrame>>

\* The cleanup of the hook's effect, at unmount.
Unmount ==
  /\ mounted
  /\ mounted' = FALSE
  /\ intervals' = ClearKeepAlive
  /\ keepAliveTimerRef' = {}
  /\ sessionRef' = {}
  /\ UNCHANGED <<sessionStatus, avatarError, starts, stops, AvatarFrame>>

AvatarInit == Init /\ FILLER_TEXT_TEMPLATE = <<>> /\ authenticated = FALSE

AvatarNext ==
  \/ StartSession
  \/ \E n \in 1..MaxStarts : TokenArrives(n)
  \/ \E n \in 1..MaxStarts : TokenFails(n)
  \/ \E n \in 1..MaxStarts : SessionStarts(n)
  \/ \E n \in 1..MaxStarts : SessionStartFails(n)
  \/ StopSession
  \/ \E k \in 1..MaxStops : StopSettles(k, "done")
  \/ \E k \in 1..MaxStops : StopSettles(k, "failed")
  \/ Unmount

AvatarSpec == AvatarInit /\ [][AvatarNext]_vars

\* ============================================== the backend adapter (server)
\* What the browser is handed for a message: POST /api/copilot/message, which
\* on the SDK path classifies the activities the agent returned and on the
\* Direct Line path polls for the first bot message.

\* String.prototype.toLowerCase on the letters of a text.
Lower(c) ==
  CASE c = "A" -> "a" []
             c = "B" -> "b" []
             c = "C" -> "c" []
             c = "D" -> "d" []
             c = "E" -> "e" []
             c = "F" -> "f" []
             c = "G" -> "g" []
             c = "H" -> "h" []
             c = "I" -> "i" []
             c = "J" -> "j" []
             c = "K" -> "k" []
             c = "L" -> "l" []
             c = "M" -> "m" []
             c = "N" -> "n" []
             c = "O" -> "o" []
             c = "P" -> "p" []
             c = "Q" -> "q" []
             c = "R" -> "r" []
             c = "S" -> "s" []
             c = "T" -> "t" []
             c = "U" -> "u" []
             c = "V" -> "v" []
             c = "W" -> "w" []
             c = "X" -> "x" []
             c = "Y" -> "y" []
             c = "Z" -> "z" []
       OTHER -> c

ToLowerCase(s) == [i \in 1..Len(s) |-> Lower(s[i])]

\* String.prototype.includes
Includes(s, p) ==
  \E i \in 0..(Len(s) - Len(p)) : SubSeq(s, i + 1, i + Len(p)) = p

\* The alternatives of the regular expression SIGNIN_TEXT_PATTERN (flag i).
SIGNIN_TEXT_PATTERN ==
  { <<"c", "o", "n", "n", "e", "c", "t", " ", "t", "o", " ", "c", "o", "n", "t", "i", "n", "u", "e">>,
    <<"s", "i", "g", "n", " ", "i", "n">>,
    <<"s", "i", "g", "n", "i", "n">>,
    <<"a", "u", "t", "h", "o", "r", "i", "z", "e">>,
    <<"a", "u", "t", "h", "o", "r", "i", "z", "a", "t", "i", "o", "n">>,
    <<"c", "r", "e", "d", "e", "n", "t", "i", "a", "l", "s">>,
    <<"p", "e", "r", "m", "i", "s", "s", "i", "o", "n", " ", "r", "e", "q", "u", "i", "r", "e", "d">>,
    <<"f", "e", "d", "e", "r", "a", "t", "e", "d", "k", "n", "o", "w", "l", "e", "d", "g", "e", "s", "e", "a", "r", "c", "h", "o", "p", "e", "r", "a", "t", "i", "o", "n">> }

isLikelySigninText(text) ==
  \E p \in SIGNIN_TEXT_PATTERN : Includes(ToLowerCase(text), p)

inferSigninTitle(m) ==
  IF Includes(ToLowerCase(m), <<"s", "h", "a", "r", "e", "p", "o", "i", "n", "t">>)
    THEN "SharePoint authorization required"
    ELSE "Authorization required"

\* A value that is absent where an object is expected.
Absent == [absent |-> TRUE]

\* A text that is absent (undefined), texts being sequences.
Missing == <<Undefined>>

\* A node of an attachment's content: an Adaptive Card element or the body
\* of an OAuth card.
Node(type, text, body, actions, data) ==
  [type |-> type, text |-> text, body |-> body, columns |-> <<>>,
   items |-> <<>>, actions |-> actions, data |-> data,
   tokenExchangeResource |-> Absent, connectionName |-> Missing]

\* parts.join("\n")
RECURSIVE JoinLines(_)
JoinLines(parts) ==
  IF parts = <<>> THEN <<>>
  ELSE IF Len(parts) = 1 THEN Head(parts)
  ELSE Head(parts) \o <<"\n">> \o JoinLines(Tail(parts))

RECURSIVE extractTextFromAdaptiveCard(_)
extractTextFromAdaptiveCard(content) ==
  IF content = Absent THEN <<>>
  ELSE LET own == IF content.type = "TextBlock" /\ content.text # Missing
                       /\ Trim(content.text) # <<>>
                    THEN <<Trim(content.text)>> ELSE <<>>
           children == content.body \o content.columns \o content.items
                         \o content.actions
           texts == [i \in 1..Len(children) |->
                       extractTextFromAdaptiveCard(children[i])]
       IN JoinLines(own \o SelectSeq(texts, LAMBDA t : t # <<>>))

extractOAuthMetadata(content) ==
  IF content = Absent
    THEN [tokenExchangeResourceUri |-> Missing,
          tokenExchangeResourceId |-> Missing, connectionName |-> Missing]
    ELSE LET ter == content.tokenExchangeResource
         IN [tokenExchangeResourceUri |->
               IF ter # Absent /\ ter.uri # Missing /\ Trim(ter.uri) # <<>>
                 THEN Trim(ter.uri) ELSE Missing,
             tokenExchangeResourceId |->
               IF ter # Absent /\ ter.id # Missing /\ Trim(ter.id) # <<>>
                 THEN Trim(ter.id) ELSE Missing,
             connectionName |->
               IF content.connectionName # Missing
                    /\ Trim(content.connectionName) # <<>>
                 THEN Trim(content.connectionName) ELSE Missing]

RECURSIVE findAllowSubmitAction(_)
findAllowSubmitAction(content) ==
  IF content = Absent THEN Absent
  ELSE IF content.type = "Action.Submit" /\ content.data # Absent
            /\ content.data.action = "Allow"
    THEN content.data
    ELSE LET children == content.body \o content.columns \o content.items
                           \o content.actions
             found == SelectSeq([i \in 1..Len(children) |->
                                   findAllowSubmitAction(children[i])],
                                LAMBDA d : d # Absent)
         IN IF found # <<>> THEN Head(found) ELSE Absent

ContentOAuth == "application/vnd.microsoft.card.oauth"
ContentSignin == "application/vnd.microsoft.card.signin"
ContentAdaptive == "application/vnd.microsoft.card.adaptive"

\* activity.text?.trim() || ""
TextOf(activity) ==
  IF activity.text = Missing THEN <<>> ELSE Trim(activity.text)

\* The card the loop of extractSigninCardFromActivity returns at an
\* attachment, Absent when it goes on to the next one.
CardOfAttachment(attachment, textFromActivity) ==
  LET isOAuthAttachment == attachment.contentType \in {ContentOAuth, ContentSignin}
      isAdaptiveCard == attachment.contentType = ContentAdaptive
      extractedText == Trim(extractTextFromAdaptiveCard(attachment.content))
      m == IF extractedText # <<>> THEN extractedText ELSE textFromActivity
      oauthMeta == extractOAuthMetadata(attachment.content)
  IN IF ~isOAuthAttachment /\ ~isAdaptiveCard THEN Absent
     ELSE IF isOAuthAttachment \/ (m # <<>> /\ isLikelySigninText(m))
       THEN [title |-> inferSigninTitle(
                         IF m # <<>> THEN m ELSE <<"A", "u", "t", "h", "o", "r", "i", "z", "a", "t", "i", "o", "n", " ", "r", "e", "q", "u", "i", "r", "e", "d">>),
             message |-> IF m # <<>> THEN m
                         ELSE <<"C", "o", "n", "n", "e", "c", "t", " ", "t", "o", " ", "c", "o", "n", "t", "i", "n", "u", "e", ".", " ", "T", "h", "i", "s", " ", "a", "c", "t", "i", "o", "n", " ", "r", "e", "q", "u", "i", "r", "e", "s", " ", "s", "i", "g", "n", "-", "i", "n", ".">>,
             tokenExchangeResourceUri |-> oauthMeta.tokenExchangeResourceUri,
             tokenExchangeResourceId |-> oauthMeta.tokenExchangeResourceId,
             connectionName |-> oauthMeta.connectionName,
             submitAction |-> IF isAdaptiveCard
                                THEN findAllowSubmitAction(attachment.content)
                                ELSE Absent]
       ELSE Absent

extractSigninCardFromActivity(activity) ==
  LET textFromActivity == TextOf(activity)
      cards == SelectSeq([i \in 1..Len(activity.attachments) |->
                            CardOfAttachment(activity.attachments[i], textFromActivity)],
                         LAMBDA c : c # Absent)
  IN IF cards # <<>> THEN Head(cards)
     ELSE IF textFromActivity # <<>> /\ isLikelySigninText(textFromActivity)
       THEN [title |-> inferSigninTitle(textFromActivity),
             message |-> textFromActivity,
             tokenExchangeResourceUri |-> Missing,
             tokenExchangeResourceId |-> Missing,
             connectionName |-> Missing, submitAction |-> Absent]
       ELSE Absent

\* The texts of the Adaptive Card attachments, joined; <<>> when there is none.
extractTextFromAttachments(activity) ==
  LET texts == [i \in 1..Len(activity.attachments) |->
                  IF activity.attachments[i].contentType = ContentAdaptive
                       /\ activity.attachments[i].content # Absent
                    THEN extractTextFromAdaptiveCard(activity.attachments[i].content)
                    ELSE <<>>]
  IN JoinLines(SelectSeq(texts, LAMBDA t : t # <<>>))

isBotActivity(activity, userId) ==
  LET fromRole == IF activity.from.role = Missing THEN Missing
                  ELSE ToLowerCase(activity.from.role)
      fromId == activity.from.id
  IN \/ fromRole = <<"b", "o", "t">>
     \/ fromRole = <<"a", "s", "s", "i", "s", "t", "a", "n", "t">>
     \/ (fromId # Undefined /\ fromId # userId)

\* text.length > 30 in pass 2 of classifyBotResponse
StreamedTextMinimum == 30

\* Pass 2 of classifyBotResponse: the last typing activity of the bot with a
\* long text that is no sign-in text.
RECURSIVE ClassifyTyping(_, _, _, _)
ClassifyTyping(activities, i, userId, card) ==
  IF i < 1 THEN [botReply |-> Missing, signinCard |-> card]
  ELSE LET activity == activities[i]
           text == TextOf(activity)
       IN IF activity.type = "typing" /\ isBotActivity(activity, userId)
               /\ text # <<>> /\ Len(text) > StreamedTextMinimum
               /\ ~isLikelySigninText(text)
            THEN [botReply |-> text, signinCard |-> card]
            ELSE ClassifyTyping(activities, i - 1, userId, card)

\* Pass 1 of classifyBotResponse from activity i on, card being the card
\* found so far.
RECURSIVE ClassifyFrom(_, _, _, _)
ClassifyFrom(activities, i, userId, card) ==
  IF i > Len(activities)
    THEN ClassifyTyping(activities, Len(activities), userId, card)
  ELSE LET activity == activities[i]
           found == IF card = Absent /\ isBotActivity(activity, userId)
                      THEN extractSigninCardFromActivity(activity) ELSE card
           text == TextOf(activity)
           cleaned == Trim(extractTextFromAttachments(activity))
       IN IF ~isBotActivity(activity, userId) \/ activity.type # "message"
            THEN ClassifyFrom(activities, i + 1, userId, found)
          ELSE IF text # <<>> /\ ~isLikelySigninText(text)
            THEN [botReply |-> text, signinCard |-> found]
          ELSE IF cleaned = <<>>
            THEN ClassifyFrom(activities, i + 1, userId, found)
          ELSE IF isLikelySigninText(cleaned)
            THEN ClassifyFrom(activities, i + 1, userId,
                   IF found # Absent THEN found
                   ELSE [title |-> inferSigninTitle(cleaned), message |-> cleaned,
                         tokenExchangeResourceUri |-> Missing,
                         tokenExchangeResourceId |-> Missing,
                         connectionName |-> Missing, submitAction |-> Absent])
            ELSE [botReply |-> cleaned, signinCard |-> found]

classifyBotResponse(activities, userId) ==
  ClassifyFrom(activities, 1, userId, Absent)

\* The body of the 200 response of the SDK path; userId is not sent by the
\* browser, and COPILOT_CLEAN_REPLY is not set.
SdkPayload(activities) ==
  LET result == classifyBotResponse(activities, "user")
      rawReply == IF result.botReply = Missing THEN <<>> ELSE result.botReply
  IN [botReply |-> rawReply, speechText |-> rawReply,
      signinCard |-> result.signinCard]

\* pollDirectLineBotReply on the activities the polls returned: the first
\* message of role bot with text, Absent when the polling times out.
DirectLineReply(activities) ==
  LET botMessages == SelectSeq(activities,
        LAMBDA activity : /\ activity.type = "message"
                          /\ activity.from.role = <<"b", "o", "t">>
                          /\ TextOf(activity) # <<>>)
  IN IF botMessages # <<>> THEN [botReply |-> Head(botMessages).text] ELSE Absent

\* The body of the 200 response of the Direct Line path.
DirectLinePayload(reply) ==
  [botReply |-> reply.botReply, speechText |-> reply.botReply,
   signinCard |-> Absent]

ErrDirectLineTimeout == "Timed out waiting for Copilot bot reply"

\* What sendMessage of useCopilotStudio returns for a 200 response.
HandedFrom(payload) ==
  [botReply |-> payload.botReply, speechText |-> payload.speechText,
   signinCard |-> payload.signinCard]

\* ---- the activities an agent may answer a message with
Activity(type, role, id, text, attachments) ==
  [type |-> type, from |-> [role |-> role, id |-> id], text |-> text,
   attachments |-> attachments]

OAuthContent ==
  [Node(Undefined, Missing, <<>>, <<>>, Absent) EXCEPT
     !.tokenExchangeResource = [id |-> <<"r", "i", "d">>, uri |-> <<" ", "u", "r", "i", " ">>],
     !.connectionName = <<"S", "h", "a", "r", "e", "P", "o", "i", "n", "t">>]

AllowContent ==
  Node("AdaptiveCard", Missing,
       <<Node("TextBlock", <<" ", "A", "u", "t", "h", "o", "r", "i", "z", "e", " ", "S", "h", "a", "r", "e", "P", "o", "i", "n", "t", " ">>, <<>>, <<>>, Absent)>>,
       <<Node("Action.Submit", Missing, <<>>, <<>>, [action |-> "Allow"])>>,
       Absent)

PlainContent ==
  Node("AdaptiveCard", Missing,
       <<Node("TextBlock", <<"h", "i">>, <<>>, <<>>, Absent)>>, <<>>, Absent)

Activities ==
  { Activity("message", <<"u", "s", "e", "r">>, "user", <<"y", "o">>, <<>>),
    Activity("message", <<"b", "o", "t">>, "bot", <<" ", "o", "k", " ">>, <<>>),
    Activity("message", Missing, "agent", <<"o", "k">>, <<>>),
    Activity("message", <<"b", "o", "t">>, "bot", <<"P", "l", "e", "a", "s", "e", " ", "s", "i", "g", "n", " ", "i", "n">>, <<>>),
    Activity("message", <<"B", "o", "t">>, "bot", Missing,
             <<[contentType |-> ContentOAuth, content |-> OAuthContent]>>),
    Activity("message", <<"b", "o", "t">>, "bot", Missing,
             <<[contentType |-> ContentAdaptive, content |-> AllowContent]>>),
    Activity("message", <<"b", "o", "t">>, "bot", Missing,
             <<[contentType |-> ContentAdaptive, content |-> PlainContent]>>),
    Activity("typing", <<"b", "o", "t">>, "bot",
             [i \in 1..(StreamedTextMinimum + 1) |-> "a"], <<>>) }

\* The number of activities in the answer to one message.
MaxActivities == 3

ActivityLists ==
  UNION { [1..n -> Activities] : n \in 0..MaxActivities }

AuthMethods == {"entra", "entra-delegated", "directline"}

\* ---- the message route as a state machine
BackendInit ==
  /\ history = <<>>
  /\ status = "idle"
  /\ isProcessing = FALSE
  /\ error = Null
  /\ signinCard = NoCard
  /\ isExchanging = FALSE
  /\ FILLER_TEXT_TEMPLATE = <<>>
  /\ authenticated = FALSE
  /\ isListening = FALSE
  /\ sttIsProcessing = FALSE
  /\ popupCard = NoCard
  /\ calls = [t \in Slots |-> IdleCall]
  /\ nCalls = 0
  /\ keepSettled = FALSE
  /\ lastThrown = Null
  /\ lastBlank = FALSE
  /\ botActivities \in ActivityLists
  /\ authMethod \in AuthMethods
  /\ handed = NoResponse
  /\ isSessionActive = FALSE
  /\ stopping = FALSE
  /\ AvatarStart

\* POST of the message route, SDK path, and sendMessage's return.
SdkMessage ==
  /\ handed = NoResponse
  /\ authMethod \in {"entra", "entra-delegated"}
  /\ handed' = Resolved("sendCopilotMessage", HandedFrom(SdkPayload(botActivities)))
  /\ UNCHANGED <<hook, config, stt, calls, book, botActivities, authMethod, session>>

\* POST of the message route, Direct Line path, and sendMessage's return or
\* throw (a response that is not ok).
DirectLineMessage ==
  /\ handed = NoResponse
  /\ authMethod = "directline"
  /\ handed' = (IF DirectLineReply(botActivities) = Absent
                  THEN Thrown("sendCopilotMessage", ErrDirectLineTimeout)
                  ELSE Resolved("sendCopilotMessage",
                         HandedFrom(DirectLinePayload(DirectLineReply(botActivities)))))
  /\ UNCHANGED <<hook, config, stt, calls, book, botActivities, authMethod, session>>

BackendNext == SdkMessage \/ DirectLineMessage

BackendSpec == BackendInit /\ [][BackendNext]_vars

\* ================================================================ the claims
TurnOf(c) == c.op = "runTurn"

\* Sequence h ends with sequence g.
EndsWith(h, g) ==
  Len(h) >= Len(g) /\ SubSeq(h, Len(h) - Len(g) + 1, Len(h)) = g

Last(q) == q[Len(q)]

\* Invocation t settles in this step.
SettlesNow(t) == InFlight(t) /\ Settled(calls'[t])

\* ----------------------------------------------------------------------- C1
\* C1: whatever the sources of the runTurn invocations (typed input or the
\* transcript handler with the runTurn it kept), at most one turn is executing
\* at any time.
C1_OneTurnAtATime ==
  Cardinality({t \in Slots : TurnOf(calls[t]) /\ InFlight(t)}) <= 1

\* ----------------------------------------------------------------------- C2
\* The backend replied with non-empty text and no card, and the turn resolved.
C2_Case(c) ==
  /\ TurnOf(c) /\ c.pc = "resolved"
  /\ c.resp # NoResponse
  /\ c.resp.signinCard = NoCard
  /\ Trim(c.resp.botReply) # <<>>

\* C2: when a turn resolves whose backend reply had non-empty text and no
\* card, the last two history entries are the user message with the trimmed
\* input and the assistant message with the trimmed reply, the status is
\* listening, no card is pending and no error is recorded.
C2_ReplyTurn ==
  [][\A t \in Slots :
       (SettlesNow(t) /\ C2_Case(calls'[t])) =>
          /\ EndsWith(history',
                      <<message("user", Trim(calls'[t].userText)),
                        message("assistant", Trim(calls'[t].resp.botReply))>>)
          /\ status' = "listening"
          /\ signinCard' = NoCard
          /\ error' = Null]_vars

C2_Witness ==
  \E t \in Slots :
    /\ C2_Case(calls[t])
    /\ calls[t].userText = <<" ", "h", "i", " ">>
    /\ calls[t].resp.botReply = <<" ", "o", "k", " ">>
    /\ history = <<message("user", <<"h", "i">>), message("assistant", <<"o", "k">>)>>
    /\ status = "listening"

\* ----------------------------------------------------------------------- C3
\* Every accepted call is a resolved turn whose backend reply was non-empty.
C3_AllSuccessful ==
  /\ nCalls >= 1
  /\ \A t \in 1..nCalls :
       /\ TurnOf(calls[t]) /\ calls[t].pc = "resolved"
       /\ Trim(calls[t].resp.botReply) # <<>>

\* No silent exchange replaced a turn's reply by an empty one.
C3_NoEmptyReplacement ==
  \A t \in 1..nCalls :
    calls[t].xres = NoResponse \/ Trim(calls[t].xres.botReply) # <<>>

\* The history is 2N messages, user then assistant, the user messages in
\* call order.
C3_Pairs ==
  /\ Len(history) = 2 * nCalls
  /\ \A t \in 1..nCalls :
       /\ history[2 * t - 1] = message("user", Trim(calls[t].userText))
       /\ history[2 * t].role = "assistant"
       /\ history[2 * t].text # <<>>

\* C3 as stated: N successive successful turns, each with a non-empty backend
\* reply, starting from an empty history, yield exactly 2N messages
\* alternating user then assistant in call order.
C3_Original == C3_AllSuccessful => C3_Pairs

\* C3 amended: the same, for turns whose reply no silent exchange replaced by
\* an empty one.
C3_Amended == (C3_AllSuccessful /\ C3_NoEmptyReplacement) => C3_Pairs

C3_Witness ==
  /\ nCalls = MaxCalls
  /\ C3_AllSuccessful /\ C3_NoEmptyReplacement
  /\ Len(history) = 2 * MaxCalls
  /\ calls[1].userText # calls[2].userText
  /\ calls[2].xres # NoResponse

\* ----------------------------------------------------------------------- C4
\* Two settled turns were given the same text and saw the same behaviour of
\* the backend, the credential acquisition, the exchange, the reply synthesis
\* and the reply playback.
C4_SameBehaviour(a, b) ==
  /\ TurnOf(a) /\ Settled(a)
  /\ TurnOf(b) /\ Settled(b)
  /\ a.userText = b.userText
  /\ a.results = b.results

\* The adapters whose failure may end a turn in status error.
C4_Fatal ==
  {"sendCopilotMessage", "acquireConnectionToken", "exchangeConnectionToken",
   "synthesizeSpeech", "speakAudio"}

C5_Throws(t) ==
  /\ TurnOf(calls[t]) /\ InFlight(t)
  /\ Len(calls'[t].results) = Len(calls[t].results) + 1
  /\ Last(calls'[t].results).outcome = "throws"

\* C5: when the backend query, the silent credential acquisition, the silent
\* token exchange, the reply synthesis or the reply playback throws during a
\* turn, the status becomes error, the error field holds the thrown error's
\* message, and the turn rejects with that error.
C5_ThrowRejects ==
  [][\A t \in Slots :
       C5_Throws(t) =>
          LET thrown == Last(calls'[t].results)
          IN /\ thrown.fn \in C4_Fatal
             /\ status' = "error"
             /\ error' = thrown.value.message
             /\ calls'[t].pc = "rejected"
             /\ calls'[t].out.thrown = thrown.value.message]_vars

C5_Witness ==
  \E t \in Slots :
    /\ TurnOf(calls[t]) /\ calls[t].pc = "rejected"
    /\ calls[t].results # <<>>
    /\ Last(calls[t].results) = Thrown("acquireConnectionToken", ErrAcquire)
    /\ status = "error" /\ error = ErrAcquire

\* ----------------------------------------------------------------------- C6
\* The last operation accepted was a turn, which rejected.
C6_AfterErrorTurn ==
  /\ nCalls >= 1
  /\ TurnOf(calls[nCalls]) /\ calls[nCalls].pc = "rejected"

\* C6: after a turn that ended in status error the next runTurn with
\* non-empty text is accepted; it clears the recorded error, appends its user
\* message and calls the backend; and when it resolves the status is
\* listening.
C6_NextTurnAccepted ==
  [][/\ \A t \in Slots :
          (TurnOf(calls[t]) /\ SettlesNow(t) /\ calls'[t].pc = "rejected") =>
            status' = "error" /\ error' # Null
     /\ C6_AfterErrorTurn' =>
          \A userText \in UserTexts :
            Trim(userText) # <<>> => ~RunTurnReturns(Trim(userText), isProcessing')
     /\ (C6_AfterErrorTurn /\ nCalls' = nCalls + 1 /\ TurnOf(calls'[nCalls'])) =>
          /\ error' = Null
          /\ history' = Append(history,
                               message("user", Trim(calls'[nCalls'].userText)))
          /\ calls'[nCalls'].reqs =
               <<request("sendCopilotMessage", Trim(calls'[nCalls'].userText))>>
     /\ \A t \in Slots :
          (t > 1 /\ TurnOf(calls[t - 1]) /\ calls[t - 1].pc = "rejected"
             /\ TurnOf(calls[t]) /\ SettlesNow(t) /\ calls'[t].pc = "resolved") =>
            status' = "listening" /\ error' = Null]_vars

C6_Witness ==
  /\ nCalls = 2
  /\ TurnOf(calls[1]) /\ calls[1].pc = "rejected"
  /\ TurnOf(calls[2]) /\ calls[2].pc = "resolved"
  /\ Len(calls[2].gained) = 2
  /\ status = "listening" /\ error = Null

\* ----------------------------------------------------------------------- C7
\* C7: every accepted turn eventually settles with the re-entrancy flag
\* cleared, whether it resolves, returns early after a silent exchange or
\* rejects, provided whatever it awaits settles.
C7_FlagCleared ==
  \A t \in Slots :
    (TurnOf(calls[t]) /\ InFlight(t)) ~> (Settled(calls[t]) /\ ~isProcessing)

\* A turn that returned early after a silent exchange, its flag cleared.
C7_Witness ==
  \E t \in Slots :
    /\ TurnOf(calls[t]) /\ calls[t].pc = "resolved"
    /\ calls[t].xres # NoResponse
    /\ Trim(calls[t].xres.botReply) = <<>>
    /\ calls[t].filler = FillerCatch
    /\ ~isProcessing

\* ----------------------------------------------------------------------- C8
\* The backend reply had empty text and a card without a token exchange
\* resource URI, and the turn resolved.
C8_Case(c) ==
  /\ TurnOf(c) /\ c.pc = "resolved"
  /\ c.resp # NoResponse
  /\ Trim(c.resp.botReply) = <<>>
  /\ c.resp.signinCard # NoCard
  /\ ~Truthy(c.resp.signinCard.tokenExchangeResourceUri)

\* What such a turn adds to the history.
C8_Gained(c) ==
  <<message("user", Trim(c.userText))>> \o
    (IF Trim(c.resp.signinCard.message) # <<>>
       THEN <<message("assistant", Trim(c.resp.signinCard.message))>>
       ELSE <<>>)

\* C8: when a turn resolves whose backend reply had empty text and a card
\* without a token exchange resource URI, that card is pending, the status is
\* listening, no synthesis and no playback was requested for a reply, and
\* beyond the user message the history gained the card's trimmed message as
\* one assistant message if it is non-empty and nothing otherwise.
C8_CardOnlyTurn ==
  [][\A t \in Slots :
       (SettlesNow(t) /\ C8_Case(calls'[t])) =>
          /\ signinCard' = calls'[t].resp.signinCard
          /\ status' = "listening"
          /\ \A i \in 1..Len(calls'[t].reqs) :
               calls'[t].reqs[i].fn \notin {"synthesizeSpeech", "speakAudio"}
          /\ calls'[t].gained = C8_Gained(calls'[t])
          /\ EndsWith(history', C8_Gained(calls'[t]))]_vars

\* Such a turn with a card whose message is blank: only the user message.
C8_Witness ==
  \E t \in Slots :
    /\ C8_Case(calls[t])
    /\ calls[t].resp.signinCard = CardBlank
    /\ signinCard = CardBlank
    /\ history = <<message("user", <<"y", "o">>)>>
    /\ status = "listening"

\* ----------------------------------------------------------------------- C9
\* The turn's card went through a silent exchange that returned non-empty
\* reply text.
C9_Exchanged(c) ==
  /\ TurnOf(c)
  /\ c.xres # NoResponse
  /\ Trim(c.xres.botReply) # <<>>

\* The pending card is null while a turn is in flight that has not yet come
\* to its card or whose card was exchanged silently.
C9_Hidden ==
  \A t \in Slots :
    (TurnOf(calls[t]) /\ InFlight(t)
       /\ (calls[t].pc \in {"copilot", "interrupt", "filler", "acquire", "exchange"}
             \/ C9_Exchanged(calls[t]))) =>
      signinCard = NoCard

\* C9: when the backend reply carries a card with a token exchange resource
\* URI, the silent acquisition returns a credential and the exchange returns
\* non-empty reply text, the pending card is null in every state of the turn
\* from its start to its end, and the assistant message of the turn is the
\* exchanged reply, not the original reply or the card's message.
C9_SilentExchange ==
  [][/\ C9_Hidden'
     /\ \A t \in Slots :
          (SettlesNow(t) /\ C9_Exchanged(calls'[t])) =>
             /\ signinCard' = NoCard
             /\ calls'[t].gained =
                  <<message("user", Trim(calls'[t].userText)),
                    message("assistant", Trim(calls'[t].xres.botReply))>>
             /\ EndsWith(history', calls'[t].gained)]_vars

\* A resolved turn whose backend reply had text and a card, and whose
\* assistant message is the exchanged reply.
C9_Witness ==
  \E t \in Slots :
    /\ C9_Exchanged(calls[t]) /\ calls[t].pc = "resolved"
    /\ calls[t].resp = Response(<<" ", "o", "k", " ">>, Undefined, CardOAuth)
    /\ Last(history) = message("assistant", <<"d">>)
    /\ signinCard = NoCard

\* ---------------------------------------------------------------------- C10
\* The silent credential acquisition of the turn returned null.
C10_AcquiredNull(c) ==
  /\ TurnOf(c)
  /\ \E i \in 1..Len(c.results) :
       c.results[i] = Resolved("acquireConnectionToken", [token |-> Null])

\* The exchange of a completeTokenExchange returned non-empty reply text.
C10_Exchanged(c) ==
  /\ c.op = "completeTokenExchange"
  /\ c.xres # NoResponse
  /\ Trim(c.xres.botReply) # <<>>

\* C10: when the backend reply carries a card with a token exchange resource
\* URI and the silent acquisition returns null, the card is the pending card
\* when the turn ends; and a following completeTokenExchange whose exchange
\* returns non-empty reply text leaves no pending card and appends that reply
\* as an assistant message.
C10_ConsentFallback ==
  [][\A t \in Slots :
       /\ (SettlesNow(t) /\ C10_AcquiredNull(calls'[t])) =>
             /\ Truthy(calls'[t].resp.signinCard.tokenExchangeResourceUri)
             /\ signinCard' = calls'[t].resp.signinCard
       /\ (SettlesNow(t) /\ C10_Exchanged(calls'[t])) =>
             /\ signinCard' = NoCard
             /\ calls'[t].gained =
                  <<message("assistant", Trim(calls'[t].xres.botReply))>>
             /\ EndsWith(history', calls'[t].gained)]_vars

\* A turn left the card pending, and the completeTokenExchange after it
\* resolved with a reply.
C10_Witness ==
  /\ nCalls = 2
  /\ TurnOf(calls[1]) /\ calls[1].pc = "resolved"
  /\ C10_Exchanged(calls[2]) /\ calls[2].pc = "resolved"
  /\ calls[2].card = CardOAuth
  /\ signinCard = NoCard
  /\ Last(history) = message("assistant", <<"d">>)
  /\ status = "listening"

\* ---------------------------------------------------------------------- C11
\* A call awaited by invocation t throws in this step.
ThrowsNow(t) ==
  /\ InFlight(t)
  /\ Len(calls'[t].results) = Len(calls[t].results) + 1
  /\ Last(calls'[t].results).outcome = "throws"

\* C11: when completeTokenExchange fails at any point (the exchange throws,
\* or the synthesis or the playback of the follow-up reply throws), the status
\* becomes error, the error message is recorded, and the pending card is the
\* card that was pending before the call.
C11_CardKeptOnFailure ==
  [][\A t \in Slots :
       (calls[t].op = "completeTokenExchange" /\ ThrowsNow(t)) =>
          /\ status' = "error"
          /\ error' = Last(calls'[t].results).value.message
          /\ signinCard' = calls[t].card]_vars

\* ---------------------------------------------------------------------- C12
\* A call awaited by invocation t resolves in this step.
ResolvesNow(t, fn) ==
  /\ InFlight(t)
  /\ Len(calls'[t].results) = Len(calls[t].results) + 1
  /\ Last(calls'[t].results).outcome = "resolves"
  /\ Last(calls'[t].results).fn = fn

\* C12: when the exchange of completeTokenExchange succeeds the pending card
\* is cleared; a response with non-empty reply text is processed by
\* processBotReply, which ends in status listening; otherwise a card carried
\* by the response becomes the pending card and the status is listening;
\* otherwise no card is pending and the status is listening.
C12_ExchangeSucceeds ==
  [][\A t \in Slots :
       /\ (calls[t].op = "completeTokenExchange"
             /\ ResolvesNow(t, "exchangeConnectionToken")) =>
            LET result == Last(calls'[t].results).value
            IN IF Trim(result.botReply) # <<>>
                 THEN /\ signinCard' = NoCard
                      /\ history' = Append(history,
                                           message("assistant", Trim(result.botReply)))
                      /\ status' = "speaking"
                      /\ Last(calls'[t].reqs).fn = "synthesizeSpeech"
                      /\ InFlight(t)'
                 ELSE /\ signinCard' = result.signinCard
                      /\ status' = "listening"
                      /\ history' = history
                      /\ calls'[t].pc = "resolved"
       /\ (calls[t].op = "completeTokenExchange" /\ ResolvesNow(t, "speakAudio")) =>
            /\ status' = "listening"
            /\ signinCard' = NoCard
            /\ calls'[t].pc = "resolved"]_vars

\* An exchange that answered with another card and no text.
C12_Witness ==
  \E t \in Slots :
    /\ calls[t].op = "completeTokenExchange" /\ calls[t].pc = "resolved"
    /\ calls[t].card = CardOAuth
    /\ calls[t].xres = Response(<<" ">>, Undefined, CardAllow)
    /\ signinCard = CardAllow
    /\ status = "listening"

\* ---------------------------------------------------------------------- C13
ConsentOp(c) == c.op \in {"completeTokenExchange", "submitAllowAction"}

\* The adapter a consent operation calls, and the payload it sends.
C13_Request(c) ==
  IF c.op = "completeTokenExchange"
    THEN request("exchangeConnectionToken",
                 [connectionToken |-> "token",
                  connectionName |-> c.card.connectionName,
                  tokenExchangeResourceId |-> c.card.tokenExchangeResourceId])
    ELSE request("submitCardAction", [submitAction |-> c.card.submitAction])

\* The state of the hook after a consent operation was given the result r of
\* the call it awaited, whichever of the two operations it is.
C13_HookAfter(r) ==
  IF r.outcome = "throws"
    THEN <<history, "error", isProcessing, r.value.message, signinCard, FALSE>>
  ELSE IF r.fn \in {"exchangeConnectionToken", "submitCardAction"}
    THEN IF Trim(r.value.botReply) # <<>>
           THEN <<Append(history, message("assistant", Trim(r.value.botReply))),
                  "speaking", isProcessing, error, NoCard, isExchanging>>
           ELSE <<history, "listening", isProcessing, error, r.value.signinCard, FALSE>>
  ELSE IF r.fn = "synthesizeSpeech"
    THEN hook
    ELSE <<history, "listening", isProcessing, error, signinCard, FALSE>>

\* C13: submitAllowAction and completeTokenExchange have the same effect on
\* status, error, history, pending card and isExchanging: at its call and at
\* every result it awaits, either operation takes the hook from the same
\* state to the same state given the same response or the same failure; they
\* differ in the adapter called and in the payload.
C13_SameEffect ==
  [][/\ (nCalls' = nCalls + 1 /\ ConsentOp(calls'[nCalls'])) =>
          /\ hook' = <<history, "thinking", isProcessing, Null, signinCard, TRUE>>
          /\ calls'[nCalls'].card = signinCard
          /\ calls'[nCalls'].reqs = <<C13_Request(calls'[nCalls'])>>
     /\ \A t \in Slots :
          (ConsentOp(calls[t]) /\ InFlight(t)
             /\ Len(calls'[t].results) = Len(calls[t].results) + 1) =>
            /\ hook' = C13_HookAfter(Last(calls'[t].results))
            /\ Last(calls'[t].results).fn \in
                 {C13_Request(calls[t]).fn, "synthesizeSpeech", "speakAudio"}]_vars

\* A submitAllowAction that resolved with a follow-up reply.
C13_Witness ==
  \E t \in Slots :
    /\ calls[t].op = "submitAllowAction" /\ calls[t].pc = "resolved"
    /\ calls[t].card = CardAllow
    /\ calls[t].xres = Response(<<" ", "d", " ">>, Undefined, NoCard)
    /\ Last(history) = message("assistant", <<"d">>)
    /\ signinCard = NoCard /\ ~isExchanging /\ status = "listening"

\* ---------------------------------------------------------------------- C14
\* The precondition of a consent operation, evaluated on a card.
C14_Lacks(op, card) ==
  IF op = "completeTokenExchange"
    THEN card = NoCard \/ ~Truthy(card.tokenExchangeResourceId)
                       \/ ~Truthy(card.connectionName)
    ELSE card = NoCard \/ ~Truthy(card.submitAction)

PreconditionErrors == {ErrNoExchangeCard, ErrNoSubmitCard}

\* C14: a consent operation called while no card is pending, or while the
\* pending card lacks the fields the operation needs, is not accepted (it
\* throws, and a throw changes neither status, error, history, card,
\* isExchanging nor issues a request), while a failure of an awaited call is
\* reported through status error and the error field without a throw.
C14_PreconditionSignalled ==
  [][/\ (nCalls' = nCalls + 1 /\ ConsentOp(calls'[nCalls'])) =>
          ~C14_Lacks(calls'[nCalls'].op, signinCard)
     /\ (lastThrown' # lastThrown /\ lastThrown' \in PreconditionErrors) =>
          /\ hook' = hook
          /\ calls' = calls
     /\ \A t \in Slots :
          (ConsentOp(calls[t]) /\ ThrowsNow(t)) =>
            /\ status' = "error"
            /\ error' = Last(calls'[t].results).value.message
            /\ error' \notin PreconditionErrors
            /\ lastThrown' = lastThrown
            /\ calls'[t].pc = "resolved"]_vars

\* ---------------------------------------------------------------------- C15
\* No adapter is called in this step: no invocation gains a request.
NoRequestIssued ==
  \A t \in Slots :
    /\ calls'[t].reqs = calls[t].reqs
    /\ calls'[t].fillerReqs = calls[t].fillerReqs

\* C15: dismissSigninCard, called in any state (any status, with or without a
\* pending card, with or without an operation in flight), leaves the pending
\* card null and the status listening, issues no request and leaves the
\* history as it was.
C15_Dismiss ==
  [][DismissSigninCard =>
       /\ signinCard' = NoCard
       /\ status' = "listening"
       /\ history' = history
       /\ NoRequestIssued]_vars

\* The card of a turn was dismissed while the submitAllowAction made on it
\* still awaits the backend.
C15_Witness ==
  \E t \in Slots :
    /\ calls[t].op = "submitAllowAction" /\ calls[t].pc = "submit"
    /\ calls[t].card = CardAllow
    /\ isExchanging
    /\ history # <<>>
    /\ signinCard = NoCard
    /\ status = "listening"

\* ---------------------------------------------------------------------- C16
\* C16: clearHistory, called in any state, leaves the history empty and the
\* pending card null, and leaves status, error and isProcessing as they were.
C16_Clear ==
  [][ClearHistory =>
       /\ history' = <<>>
       /\ signinCard' = NoCard
       /\ status' = status
       /\ error' = error
       /\ isProcessing' = isProcessing]_vars

\* The history was cleared while a turn, which had appended its user message,
\* still awaits the backend.
C16_Witness ==
  \E t \in Slots :
    /\ calls[t].op = "runTurn" /\ calls[t].pc = "copilot"
    /\ isProcessing
    /\ history = <<>>
    /\ status = "speaking"

\* ---------------------------------------------------------------------- C17
\* The filler branch of an invocation still awaits synthesis or playback.
C17_FillerRunning(c) == c.filler \in {"synth", "play"}

\* Invocation t issues a request to fn in this step.
IssuesNow(t, fn) ==
  /\ Len(calls'[t].reqs) = Len(calls[t].reqs) + 1
  /\ Last(calls'[t].reqs).fn = fn

\* C17: in a runTurn whose backend query succeeded, the reply goes to
\* synthesis and then to playback only after the interrupt was requested and
\* has completed and the filler branch has settled: the turn leaves the
\* interrupt only for the join with the filler, leaves the join only with
\* the filler settled, and reply playback is requested with the interrupt
\* request behind it and no filler of the same turn running.
C17_ReplyAfterFiller ==
  [][\A t \in Slots :
       TurnOf(calls[t]) =>
         /\ (calls[t].pc = "copilot" /\ calls'[t].pc \notin {"copilot", "rejected"}) =>
              calls'[t].pc = "interrupt" /\ IssuesNow(t, "interruptSpeech")
         /\ (calls[t].pc = "interrupt" /\ calls'[t].pc # "interrupt") =>
              calls'[t].pc = "filler"
         /\ (calls[t].pc = "filler" /\ calls'[t].pc # "filler") =>
              ~C17_FillerRunning(calls[t])
         /\ (IssuesNow(t, "synthesizeSpeech") \/ IssuesNow(t, "speakAudio")) =>
              /\ calls[t].pc \notin {"copilot", "interrupt"}
              /\ \E i \in 1..Len(calls[t].reqs) : calls[t].reqs[i].fn = "interruptSpeech"
              /\ ~C17_FillerRunning(calls[t])
              /\ ~C17_FillerRunning(calls'[t])]_vars

\* A turn whose reply was played after its filler had been played.
C17_Witness ==
  \E t \in Slots :
    /\ TurnOf(calls[t]) /\ calls[t].pc = "resolved"
    /\ calls[t].filler = "done"
    /\ \E i \in 1..Len(calls[t].fillerReqs) : calls[t].fillerReqs[i].fn = "speakAudio"
    /\ Last(calls[t].reqs).fn = "speakAudio"
    /\ status = "listening"

\* ---------------------------------------------------------------------- C18
IsPrefix(h, g) == Len(h) <= Len(g) /\ SubSeq(g, 1, Len(h)) = h

\* C18: every step other than a clearHistory leaves the history as it was or
\* appends to it, so that across operations other than clearHistory each
\* earlier history is a prefix of each later one.
C18_AppendOnly == [][ClearHistory \/ IsPrefix(history, history')]_vars

\* A history of three messages: the user's text, the card's message and the
\* reply that followed the consent.
C18_Witness ==
  /\ Len(history) = 3
  /\ history[1].role = "user"
  /\ history[2].role = "assistant"
  /\ history[3] = message("assistant", <<"d">>)

\* ---------------------------------------------------------------------- C19
\* C19: at most one of runTurn, completeTokenExchange and submitAllowAction
\* is in flight at any time.
C19_OneOperationInFlight ==
  Cardinality({t \in Slots : InFlight(t)}) <= 1

\* ---------------------------------------------------------------------- C20
\* Something of invocation t is outstanding: the operation itself awaits a
\* call, or its filler branch does.
C20_Outstanding(t) == InFlight(t) \/ C17_FillerRunning(calls[t])

\* C20: whenever a card is pending nothing is in flight: no runTurn is in
\* progress and no backend, synthesis, playback or exchange call is
\* outstanding.
C20_CardMeansQuiet ==
  signinCard # NoCard =>
    /\ ~isProcessing
    /\ \A t \in Slots : ~C20_Outstanding(t)

\* ---------------------------------------------------------------------- C21
\* A bot activity that carries a sign-in or OAuth card, or sign-in text.
C21_CarriesSignin(activity) ==
  /\ isBotActivity(activity, "user")
  /\ \/ \E i \in 1..Len(activity.attachments) :
          \/ activity.attachments[i].contentType \in {ContentOAuth, ContentSignin}
          \/ /\ activity.attachments[i].contentType = ContentAdaptive
             /\ isLikelySigninText(
                  extractTextFromAdaptiveCard(activity.attachments[i].content))
     \/ isLikelySigninText(TextOf(activity))

\* C21: whenever a bot activity of the backend's answer carries a sign-in or
\* OAuth card or sign-in text, the response handed to the orchestrator has a
\* signinCard, for every auth method and wherever the card is in the list.
C21_NoCardDropped ==
  (handed # NoResponse /\ handed.outcome = "resolves"
     /\ \E i \in 1..Len(botActivities) : C21_CarriesSignin(botActivities[i]))
    => handed.value.signinCard # Absent

\* ---------------------------------------------------------------------- C22
\* C22: once stopFullSession has completed, and until a new session is
\* started, the history is empty, no card is pending and the status is idle,
\* also when a turn was in flight at the moment Stop was invoked.
C22_StoppedStaysReset ==
  ~isSessionActive => (history = <<>> /\ signinCard = NoCard /\ status = "idle")

\* ---------------------------------------------------------------------- C23
\* The requests invocation c made to the silent credential adapter.
C23_Acquisitions(c) ==
  {i \in 1..Len(c.reqs) : c.reqs[i].fn = "acquireConnectionToken"}

\* A turn whose backend reply carries a card with a tokenExchangeResourceUri.
C23_UriCard(c) ==
  /\ TurnOf(c) /\ c.resp # NoResponse
  /\ c.resp.signinCard # NoCard
  /\ Truthy(c.resp.signinCard.tokenExchangeResourceUri)

\* The turn is past the join with its filler, where the card is dealt with.
C23_PastJoin(c) == c.pc \notin {"copilot", "interrupt", "filler"}

\* The adapter was called once, with the card's URI.
C23_AcquiredOnce(c) ==
  /\ Cardinality(C23_Acquisitions(c)) = 1
  /\ \A i \in C23_Acquisitions(c) :
       c.reqs[i].arg = c.resp.signinCard.tokenExchangeResourceUri

\* C23 as stated: a turn whose backend reply carries a card with a
\* tokenExchangeResourceUri has called the silent credential adapter exactly
\* once with that URI as soon as it deals with the card, hence before the
\* card can be pending.
C23_Original ==
  \A t \in Slots :
    (C23_UriCard(calls[t]) /\ C23_PastJoin(calls[t])) => C23_AcquiredOnce(calls[t])

\* C23 amended: the adapter is called exactly once with the URI when the card
\* also has a tokenExchangeResourceId and a connectionName and the token
\* adapters exist (the user is signed in); otherwise it is not called at all
\* and the card becomes pending without it.
C23_Amended ==
  \A t \in Slots :
    LET c == calls[t]
        card == c.resp.signinCard
    IN C23_UriCard(c) =>
         IF /\ Truthy(card.tokenExchangeResourceId)
            /\ Truthy(card.connectionName)
            /\ authenticated
           THEN /\ C23_PastJoin(c) => C23_AcquiredOnce(c)
                /\ ~C23_PastJoin(c) => C23_Acquisitions(c) = {}
           ELSE C23_Acquisitions(c) = {}

\* A turn that asked the adapter once, was given null and left the card pending.
C23_Witness ==
  \E t \in Slots :
    /\ C23_UriCard(calls[t]) /\ calls[t].pc = "resolved"
    /\ calls[t].resp.signinCard = CardOAuth
    /\ C23_AcquiredOnce(calls[t])
    /\ signinCard = CardOAuth

\* ---------------------------------------------------------------------- C24
\* C24: when the silent exchange of a turn resolves with a replacement reply
\* whose text is empty after trimming, the turn ends there: it resolves with
\* status listening, issues no request, appends nothing to the history and
\* leaves no card pending, whatever the text of the backend's reply was and
\* whether or not the replacement carries a card of its own.
C24_EmptyReplacement ==
  [][\A t \in Slots :
       (TurnOf(calls[t]) /\ ResolvesNow(t, "exchangeConnectionToken")
          /\ Trim(Last(calls'[t].results).value.botReply) = <<>>) =>
         /\ calls'[t].pc = "resolved"
         /\ status' = "listening"
         /\ ~isProcessing'
         /\ error' = Null
         /\ history' = history
         /\ signinCard' = NoCard
         /\ NoRequestIssued]_vars

\* The backend replied with text and an OAuth card, and the silent exchange
\* gave blank text and a consent card.
C24_Witness ==
  \E t \in Slots :
    /\ TurnOf(calls[t]) /\ calls[t].pc = "resolved"
    /\ calls[t].resp = Response(<<" ", "o", "k", " ">>, Undefined, CardOAuth)
    /\ calls[t].xres = Response(<<" ">>, Undefined, CardAllow)
    /\ Len(calls[t].gained) = 1
    /\ Last(history).role = "user"
    /\ signinCard = NoCard
    /\ status = "listening"

\* ---------------------------------------------------------------------- C25
\* C25: when the silent credential adapter resolves with null the turn goes
\* on and the card of the backend's reply becomes pending with no error
\* recorded; when it throws the turn is rejected with status error, the error
\* recorded and no card pending.
C25_NullIsNotAnError ==
  [][\A t \in Slots :
       /\ (TurnOf(calls[t]) /\ ResolvesNow(t, "acquireConnectionToken")
             /\ Last(calls'[t].results).value.token = Null) =>
            /\ signinCard' = calls[t].resp.signinCard
            /\ signinCard' # NoCard
            /\ error' = Null
            /\ status' # "error"
            /\ calls'[t].pc \in {"synth", "resolved"}
       /\ (TurnOf(calls[t]) /\ ThrowsNow(t)
             /\ Last(calls'[t].results).fn = "acquireConnectionToken") =>
            /\ calls'[t].pc = "rejected"
            /\ status' = "error"
            /\ error' = ErrAcquire
            /\ signinCard' = NoCard
            /\ ~isProcessing']_vars

\* A turn rejected because the silent acquisition threw, with no card pending.
C25_Witness ==
  \E t \in Slots :
    /\ TurnOf(calls[t]) /\ calls[t].pc = "rejected"
    /\ calls[t].resp # NoResponse
    /\ calls[t].resp.signinCard = CardOAuth
    /\ Last(calls[t].results) = Thrown("acquireConnectionToken", ErrAcquire)
    /\ status = "error" /\ error = ErrAcquire
    /\ signinCard = NoCard

\* ---------------------------------------------------------------------- C26
\* C26: in the step in which a runTurn is accepted and issues its first
\* requests (the backend query and, with a template, the filler synthesis),
\* the error and the pending card are cleared, isProcessing is set, status is
\* speaking and the last history entry is the user message with the trimmed
\* text; the invocation had issued nothing before.
C26_StepOneFirst ==
  [][(nCalls' = nCalls + 1 /\ TurnOf(calls'[nCalls'])) =>
       LET c == calls'[nCalls']
       IN /\ calls[nCalls'].reqs = <<>> /\ calls[nCalls'].fillerReqs = <<>>
          /\ error' = Null
          /\ signinCard' = NoCard
          /\ isProcessing'
          /\ status' = "speaking"
          /\ history' = Append(history, message("user", Trim(c.userText)))
          /\ Trim(c.userText) # <<>>
          /\ c.reqs = <<request("sendCopilotMessage", Trim(c.userText))>>
          /\ Len(c.fillerReqs) <= 1
          /\ \A i \in 1..Len(c.fillerReqs) : c.fillerReqs[i].fn = "synthesizeSpeech"
          /\ c.results = <<>>]_vars

\* A turn accepted after a turn that was rejected: the error is cleared, the
\* backend query and the filler synthesis are out and nothing has come back.
C26_Witness ==
  /\ nCalls = 2
  /\ calls[1].op = "runTurn" /\ calls[1].pc = "rejected"
  /\ TurnOf(calls[2]) /\ calls[2].pc = "copilot"
  /\ calls[2].userText = <<" ", "h", "i", " ">>
  /\ Last(history) = message("user", <<"h", "i">>)
  /\ Len(calls[2].fillerReqs) = 1 /\ calls[2].filler = "synth"
  /\ error = Null /\ status = "speaking" /\ isProcessing /\ signinCard = NoCard

\* ---------------------------------------------------------------------- C27
\* The values a turn that speaks a reply gives the status, in order.
C27_Sequence == <<"speaking", "thinking", "speaking", "listening">>

\* The turn has reached processBotReply and has not failed since.
C27_SpeaksReply(c) ==
  /\ TurnOf(c) /\ c.pc \in {"synth", "play", "resolved"}
  /\ \E i \in 1..Len(c.reqs) : c.reqs[i].fn = "synthesizeSpeech"

\* C27: a turn that speaks a reply sets the status to speaking, thinking,
\* speaking and listening, in that order and with nothing else in between:
\* while the backend query, the interrupt or the filler is awaited it has set
\* only speaking and the status is speaking (never thinking while the query
\* is in flight); during synthesis and playback of the reply it has set
\* speaking, thinking, speaking and the status is speaking; once the turn
\* has resolved it has set all four and the last was listening.
C27_StatusOrder ==
  \A t \in Slots :
    LET c == calls[t]
    IN /\ (TurnOf(c) /\ c.pc \in {"copilot", "interrupt", "filler"}) =>
            (c.statuses = SubSeq(C27_Sequence, 1, 1) /\ status = "speaking")
       /\ (C27_SpeaksReply(c) /\ c.pc \in {"synth", "play"}) =>
            (c.statuses = SubSeq(C27_Sequence, 1, 3) /\ status = "speaking")
       /\ (C27_SpeaksReply(c) /\ c.pc = "resolved") =>
            (c.statuses = C27_Sequence /\ c.out.status = "listening")

\* A turn that spoke the backend's reply has resolved with status listening.
C27_Witness ==
  \E t \in Slots :
    /\ C27_SpeaksReply(calls[t]) /\ calls[t].pc = "resolved"
    /\ calls[t].resp.signinCard = NoCard
    /\ Len(calls[t].results) >= 3
    /\ Last(calls[t].results) = Resolved("speakAudio", [done |-> TRUE])
    /\ calls[t].statuses = C27_Sequence
    /\ status = "listening"

\* ---------------------------------------------------------------------- C28
\* The response whose reply text invocation c hands to processBotReply.
C28_Source(c) ==
  IF c.xres # NoResponse THEN c.xres ELSE c.resp

\* The speechText argument of processBotReply: response.speechText?.trim().
C28_SpeechArg(c) ==
  IF C28_Source(c).speechText = Undefined
    THEN Undefined ELSE Trim(C28_Source(c).speechText)

\* Invocation t enters processBotReply in this step.
C28_Enters(t) ==
  /\ InFlight(t) /\ calls[t].pc # "synth" /\ calls'[t].pc = "synth"

\* C28: processBotReply first appends the assistant message with displayText
\* and sets the status to speaking, and with that requests the synthesis of
\* speechText when it is provided and not empty and of displayText otherwise;
\* playback is requested only when the synthesis has resolved and is the
\* request after it, the history being left alone; the status becomes
\* listening only when the playback has resolved.
C28_ProcessBotReplyOrder ==
  [][\A t \in Slots :
       /\ C28_Enters(t) =>
            LET c == calls'[t]
                displayText == Trim(C28_Source(c).botReply)
            IN /\ displayText # <<>>
               /\ history' = Append(history, message("assistant", displayText))
               /\ status' = "speaking"
               /\ IssuesNow(t, "synthesizeSpeech")
               /\ Last(c.reqs).arg =
                    (IF C28_SpeechArg(c) # Undefined /\ C28_SpeechArg(c) # <<>>
                       THEN C28_SpeechArg(c) ELSE displayText)
       /\ (InFlight(t) /\ calls[t].pc = "synth" /\ calls'[t].pc = "play") =>
            /\ ResolvesNow(t, "synthesizeSpeech")
            /\ IssuesNow(t, "speakAudio")
            /\ calls[t].reqs[Len(calls[t].reqs)].fn = "synthesizeSpeech"
            /\ history' = history /\ status' = status
       /\ (InFlight(t) /\ calls[t].pc = "synth") =>
            calls'[t].pc \in {"synth", "play", "resolved", "rejected"}
       /\ (InFlight(t) /\ calls[t].pc = "play" /\ calls'[t].pc # "play") =>
            /\ calls'[t].pc \in {"resolved", "rejected"}
            /\ history' = history
            /\ (calls'[t].pc = "resolved" /\ ~ThrowsNow(t)) =>
                 /\ ResolvesNow(t, "speakAudio")
                 /\ Last(calls'[t].statuses) = "listening"
                 /\ calls'[t].out.status = "listening"
       /\ (InFlight(t) /\ calls[t].pc \in {"synth", "play"} /\ calls'[t].pc = calls[t].pc) =>
            calls'[t] = calls[t]]_vars

\* A reply with a separate speech text was spoken: the history holds the
\* display text and the synthesis was asked for the trimmed speech text.
C28_Witness ==
  \E t \in Slots :
    /\ TurnOf(calls[t]) /\ calls[t].pc = "resolved"
    /\ calls[t].resp = Response(<<"o", "k">>, <<" ", "k", " ">>, NoCard)
    /\ Last(history) = message("assistant", <<"o", "k">>)
    /\ \E i \in 1..Len(calls[t].reqs) :
         calls[t].reqs[i] = request("synthesizeSpeech", <<"k">>)
    /\ Last(calls[t].reqs).fn = "speakAudio"
    /\ status = "listening"

\* ---------------------------------------------------------------------- C29
\* C29: a call of runTurn with text that is empty after trimming leaves the
\* status, the error, the history, the pending card and isProcessing as they
\* were, accepts no invocation and issues no request to any adapter.
C29_BlankIsNoOp ==
  [][(lastBlank' /\ ~lastBlank) =>
       /\ UNCHANGED <<status, error, history, signinCard, isProcessing, isExchanging>>
       /\ nCalls' = nCalls
       /\ calls' = calls]_vars

\* runTurn was called without text after a turn had failed: the error and
\* the user message of that turn are still there and the status is still
\* error.
C29_Witness ==
  /\ lastBlank
  /\ status = "error" /\ error # Null
  /\ history # <<>> /\ Last(history).role = "user"
  /\ ~isProcessing
  /\ \E t \in Slots : TurnOf(calls[t]) /\ calls[t].pc = "rejected"

\* ---------------------------------------------------------------------- C30
\* The template with every placeholder replaced by input.
RECURSIVE C30_Filled(_, _)
C30_Filled(template, input) ==
  IF template = <<>> THEN <<>>
  ELSE (IF Head(template) = "{{input}}" THEN input ELSE <<Head(template)>>)
         \o C30_Filled(Tail(template), input)

\* The user text, or its first 80 characters and an ellipsis.
C30_Input(userText) ==
  IF Len(userText) <= 80 THEN userText
  ELSE SubSeq(userText, 1, 80) \o <<".", ".", ".">>

\* C30: the filler phrase a turn sends to the synthesis is the template with
\* every placeholder replaced by the user text when it has at most 80
\* characters and by its first 80 characters and an ellipsis when it is
\* longer; a template without placeholder is the phrase as it is.
C30_FillerPhrase ==
  \A t \in Slots :
    (TurnOf(calls[t]) /\ calls[t].fillerReqs # <<>>) =>
       calls[t].fillerReqs[1] =
         request("synthesizeSpeech",
                 C30_Filled(FILLER_TEXT_TEMPLATE, C30_Input(calls[t].text)))

\* The same for user texts that hold no dollar sign.
C30_FillerPhraseOfPlainText ==
  \A t \in Slots :
    (/\ TurnOf(calls[t]) /\ calls[t].fillerReqs # <<>>
     /\ \A i \in 1..Len(calls[t].text) : calls[t].text[i] # "$") =>
       calls[t].fillerReqs[1] =
         request("synthesizeSpeech",
                 C30_Filled(FILLER_TEXT_TEMPLATE, C30_Input(calls[t].text)))

\* ---------------------------------------------------------------------- C31
\* How often invocation c asked adapter fn outside its filler branch.
C31_Asked(c, fn) == Cardinality({i \in 1..Len(c.reqs) : c.reqs[i].fn = fn})

\* What a settled turn leaves, told from its text and from what the backend,
\* the silent exchange and the reply's synthesis and playback gave it, the
\* filler and the template left aside: whether it resolved, the outcome and
\* the messages it appended.
C31_Expected(c) ==
  LET last == Last(c.results)
      failed == last.outcome = "throws"
      silent == c.xres # NoResponse
      shown == /\ c.resp # NoResponse /\ ~silent
               /\ ~(failed /\ last.fn \in {"acquireConnectionToken",
                                           "exchangeConnectionToken"})
      card == IF shown THEN c.resp.signinCard ELSE NoCard
      replyText == IF silent THEN Trim(c.xres.botReply)
                   ELSE IF shown THEN Trim(c.resp.botReply) ELSE <<>>
      cardText == IF card # NoCard THEN Trim(card.message) ELSE <<>>
      said == IF replyText # <<>> THEN <<message("assistant", replyText)>>
              ELSE IF cardText # <<>> THEN <<message("assistant", cardText)>>
              ELSE <<>>
  IN [pc |-> IF failed THEN "rejected" ELSE "resolved",
      out |-> [status |-> IF failed THEN "error" ELSE "listening",
               error |-> IF failed THEN last.value.message ELSE Null,
               signinCard |-> card,
               thrown |-> IF failed THEN last.value.message ELSE Null],
      gained |-> <<message("user", Trim(c.userText))>> \o said,
      spoken |-> IF replyText # <<>> THEN 1 ELSE 0]

\* C31: without a template the filler branch of a turn is off and issues no
\* request, and the turn asks for at most one synthesis and one playback,
\* those of its reply; and with or without a template a settled turn has
\* resolved or rejected, appended the messages and left the status, error and
\* card that its text and the results of its other calls determine.
C31_FillerOff ==
  \A t \in Slots :
    LET c == calls[t]
    IN /\ (TurnOf(c) /\ FILLER_TEXT_TEMPLATE = <<>>) =>
            /\ c.filler = "off" /\ c.fillerReqs = <<>>
            /\ C31_Asked(c, "synthesizeSpeech") <= 1
            /\ C31_Asked(c, "speakAudio") <= C31_Asked(c, "synthesizeSpeech")
       /\ (TurnOf(c) /\ Settled(c) /\ c.out # NoOutcome) =>
            /\ c.pc = C31_Expected(c).pc
            /\ c.out = C31_Expected(c).out
            /\ c.gained = C31_Expected(c).gained
            /\ C31_Asked(c, "synthesizeSpeech") = C31_Expected(c).spoken

\* Without a template a turn has spoken the reply of the backend: one
\* synthesis and one playback were asked for, none by a filler.
C31_Witness ==
  \E t \in Slots :
    /\ FILLER_TEXT_TEMPLATE = <<>>
    /\ TurnOf(calls[t]) /\ calls[t].pc = "resolved"
    /\ calls[t].filler = "off" /\ calls[t].fillerReqs = <<>>
    /\ C31_Asked(calls[t], "synthesizeSpeech") = 1
    /\ C31_Asked(calls[t], "speakAudio") = 1
    /\ calls[t].out.status = "listening"
    /\ Len(calls[t].gained) = 2

\* ---------------------------------------------------------------------- C32
\* The interrupt that turn c requested after the backend resolved has
\* completed.
C32_Interrupted(c) ==
  /\ TurnOf(c)
  /\ c.pc \in {"filler", "acquire", "exchange", "synth", "play"}

\* C32: once the interrupt a turn requested after its backend query resolved
\* has completed, the filler branch of that turn issues no request any more,
\* in particular no playback request.
C32_NoFillerAfterInterrupt ==
  [][\A t \in Slots :
       C32_Interrupted(calls[t]) =>
          Len(calls'[t].fillerReqs) = Len(calls[t].fillerReqs)]_vars


\* ---------------------------------------------------------------------- C33
\* C33: when a turn has settled, resolved or rejected, its filler branch has
\* settled too: it awaits neither its synthesis nor its playback.
C33_FillerSettledWithTurn ==
  \A t \in Slots :
    (TurnOf(calls[t]) /\ Settled(calls[t])) =>
       calls[t].filler \notin {"synth", "play"}


\* ---------------------------------------------------------------------- C34
\* C34: the recorded error is non-null only while the status is error: a
\* step of runTurn, completeTokenExchange or submitAllowAction that accepts
\* the call, or a step of dismissSigninCard, that takes the status away from
\* error leaves no error recorded.
C34_ErrorOnlyInStatusError ==
  [][(/\ status = "error" /\ status' # "error"
      /\ (nCalls' # nCalls \/ DismissSigninCard)) =>
        error' = Null]_vars


\* ---------------------------------------------------------------------- C35
\* C35: when the synthesis or the playback of a turn's reply throws, the
\* history is left as it was: its last two entries are the user message of
\* the turn and the assistant message of the reply that was not spoken, and
\* the status is error with the failure's message recorded.
C35_NoRollback ==
  [][\A t \in Slots :
       (TurnOf(calls[t]) /\ calls[t].pc \in {"synth", "play"} /\ ThrowsNow(t)) =>
          LET c == calls'[t]
          IN /\ Last(c.results).fn \in {"synthesizeSpeech", "speakAudio"}
             /\ history' = history
             /\ Len(c.gained) = 2
             /\ c.gained[1] = message("user", Trim(c.userText))
             /\ c.gained[2].role = "assistant" /\ c.gained[2].text # <<>>
             /\ EndsWith(history', c.gained)
             /\ status' = "error"
             /\ error' = Last(c.results).value.message]_vars

\* The playback of a reply failed: the turn is rejected, the status is error
\* and the history still ends with the question and the unspoken reply.
C35_Witness ==
  \E t \in Slots :
    /\ TurnOf(calls[t]) /\ calls[t].pc = "rejected"
    /\ calls[t].results # <<>>
    /\ Last(calls[t].results) = Thrown("speakAudio", ErrSpeak)
    /\ history = <<message("user", <<"h", "i">>), message("assistant", <<"o", "k">>)>>
    /\ status = "error" /\ error = ErrSpeak


\* ---------------------------------------------------------------------- C36
\* C36: isExchanging is true exactly while a call of completeTokenExchange or
\* of submitAllowAction is between its acceptance and its settlement.
C36_ExchangingWhileInFlight ==
  isExchanging <=>
    \E t \in Slots :
      calls[t].op \in {"completeTokenExchange", "submitAllowAction"} /\ InFlight(t)


\* ---------------------------------------------------------------------- C37
\* C37: whenever the keep-alive interval is set, the session reference holds
\* a session; and at most one interval is active.
C37_KeepAliveOnlyWithSession ==
  /\ keepAliveTimerRef # {} => sessionRef # {}
  /\ Cardinality(intervals) <= 1

====
